---- MODULE Spec2Model ----
(***************************************************************************)
(* Model of the financial time-series derivation (calculateYoY,            *)
(* calculateCAGR, calculateCAGRFromMetrics, toNumber, convertCurrency),    *)
(* of the ask route (POST /api/ask) and of the client components           *)
(* (MetricsTable, DashboardClient, AskBox) of the football finance         *)
(* dashboard.                                                              *)
(*                                                                         *)
(* Text is a sequence of one-character strings, so that parsing and        *)
(* pattern matching are computed character by character.  A JavaScript     *)
(* number is a record: a normalised fraction [k: "num", n, d] (d > 0),     *)
(* NaN, or a signed Infinity; null is a value of its own.  In the deriver  *)
(* and the route finite arithmetic is exact, and the root taken by         *)
(* calculateCAGR is kept to whole-percent precision (floor); -0 is not     *)
(* distinguished from 0.  The converter harness computes convertCurrency   *)
(* in IEEE 754 binary64, rounding to nearest, ties to even.                *)
(***************************************************************************)
EXTENDS Integers, Sequences, FiniteSets, TLC

VARIABLES
    financials,   \* deriver harness: the Financial[] handed to the functions
    metrics,      \* deriver harness: the FinancialMetric[] calculateYoY returned
    passed,       \* deriver harness: the FinancialMetric[] handed to calculateCAGRFromMetrics
    cagr,         \* deriver harness: the value the CAGR function returned
    called,       \* deriver harness: which function returned last
    store,        \* ask route: the clubs and financials tables
    requests,     \* ask route: per request slot, the handler's position and locals
    conversion,   \* converter harness: the amount, the currencies and what came back
    table,        \* MetricsTable: its props and its sort state
    dashboard,    \* DashboardClient: its state and the server-action calls in flight
    askBox        \* AskBox: its state and the request in flight

dvars == <<financials, metrics, passed, cagr, called>>
avars == <<store, requests>>
cvars == <<conversion, table, dashboard, askBox>>
vars == <<financials, metrics, passed, cagr, called, store, requests,
          conversion, table, dashboard, askBox>>

\* The client components and the converter harness, not mounted.
NotMounted == [pc |-> "none"]
NoClient ==
    /\ conversion = NotMounted
    /\ table = NotMounted
    /\ dashboard = NotMounted
    /\ askBox = NotMounted

(***************************************************************************)
(* Bounds of the model.                                                    *)
(***************************************************************************)
MaxLen == 3

(***************************************************************************)
(* Values.                                                                 *)
(***************************************************************************)
Null == [k |-> "null"]
NaN == [k |-> "nan"]
Inf(sign) == [k |-> "inf", sign |-> sign]
Num(n, d) == [k |-> "num", n |-> n, d |-> d]
Text(s) == [k |-> "text", s |-> s]

Abs(x) == IF x < 0 THEN -x ELSE x
Sign(x) == IF x < 0 THEN -1 ELSE 1

RECURSIVE Gcd(_, _)
Gcd(a, b) == IF b = 0 THEN a ELSE Gcd(b, a % b)

\* The fraction n/d (d # 0) in lowest terms with a positive denominator.
Norm(n, d) ==
    LET g == Gcd(Abs(n), Abs(d))
    IN  Num(Sign(d) * (n \div g), Abs(d) \div g)

RECURSIVE Pow(_, _)
Pow(b, e) == IF e = 0 THEN 1 ELSE b * Pow(b, e - 1)

(***************************************************************************)
(* JavaScript number arithmetic on these values.                           *)
(***************************************************************************)
SignOf(a) == IF a.k = "inf" THEN a.sign ELSE Sign(a.n)
IsZero(a) == a.k = "num" /\ a.n = 0

\* a - b
JsSub(a, b) ==
    IF a.k = "nan" \/ b.k = "nan" THEN NaN
    ELSE IF a.k = "inf" THEN (IF b.k = "inf" /\ b.sign = a.sign THEN NaN ELSE a)
    ELSE IF b.k = "inf" THEN Inf(-b.sign)
    ELSE Norm(a.n * b.d - b.n * a.d, a.d * b.d)

\* a * b
JsMul(a, b) ==
    IF a.k = "nan" \/ b.k = "nan" THEN NaN
    ELSE IF a.k = "inf" \/ b.k = "inf"
         THEN (IF IsZero(a) \/ IsZero(b) THEN NaN ELSE Inf(SignOf(a) * SignOf(b)))
    ELSE Norm(a.n * b.n, a.d * b.d)

\* a / b
JsDiv(a, b) ==
    IF a.k = "nan" \/ b.k = "nan" THEN NaN
    ELSE IF a.k = "inf" THEN (IF b.k = "inf" THEN NaN ELSE Inf(a.sign * SignOf(b)))
    ELSE IF b.k = "inf" THEN Num(0, 1)
    ELSE IF b.n = 0 THEN (IF a.n = 0 THEN NaN ELSE Inf(Sign(a.n)))
    ELSE Norm(a.n * b.d, a.d * b.n)

\* a <= 0
JsLeqZero(a) ==
    IF a.k = "nan" THEN FALSE
    ELSE IF a.k = "inf" THEN a.sign < 0
    ELSE a.n <= 0

\* a > 0
JsGtZero(a) ==
    IF a.k = "nan" THEN FALSE
    ELSE IF a.k = "inf" THEN a.sign > 0
    ELSE a.n > 0

\* a !== 0
JsNeqZero(a) == ~IsZero(a)

IsFinite(a) == a.k = "num"

(***************************************************************************)
(* toNumber: null -> 0; otherwise strip the commas and parseFloat.         *)
(* parseFloat skips leading blanks, reads an optional sign, digits and an  *)
(* optional fraction, stops at the first character that does not fit, and  *)
(* yields NaN when it read no digit.  (Exponents and the literal           *)
(* "Infinity" are not in the alphabet of the model.)  A numeral of more    *)
(* than 309 significant integer digits is above Number.MAX_VALUE           *)
(* (1.797...e308) and reads as Infinity, as every double above it does.    *)
(***************************************************************************)
Digits == <<"0", "1", "2", "3", "4", "5", "6", "7", "8", "9">>
DigitSet == {Digits[i] : i \in 1..10}
IsDigit(c) == c \in DigitSet
DigitVal(c) == (CHOOSE i \in 1..10 : Digits[i] = c) - 1

\* s with every "," removed: value.replace(/,/g, "")
StripCommas(s) == SelectSeq(s, LAMBDA c : c # ",")

\* The length of the longest run of characters of s from position p that are in
\* the set cs.
RunLength(s, p, cs) ==
    LET stops == {q \in p..Len(s) : s[q] \notin cs}
    IN  IF stops = {} THEN Len(s) + 1 - p
        ELSE (CHOOSE q \in stops : \A r \in stops : q <= r) - p

DigitRun(s, p) == IF p > Len(s) THEN 0 ELSE RunLength(s, p, DigitSet)
ZeroRun(s, p) == IF p > Len(s) THEN 0 ELSE RunLength(s, p, {"0"})
BlankRun(s, p) == IF p > Len(s) THEN 0 ELSE RunLength(s, p, {" "})

\* The value of the digits s[p .. p+len-1] read as a decimal numeral.
RECURSIVE DigitsVal(_, _, _)
DigitsVal(s, p, len) ==
    IF len = 0 THEN 0
    ELSE 10 * DigitsVal(s, p, len - 1) + DigitVal(s[p + len - 1])

parseFloat(s) ==
    LET p0 == 1 + BlankRun(s, 1)
        hasSign == p0 <= Len(s) /\ s[p0] \in {"-", "+"}
        sign == IF hasSign /\ s[p0] = "-" THEN -1 ELSE 1
        p1 == IF hasSign THEN p0 + 1 ELSE p0
        ilen == DigitRun(s, p1)
        p2 == p1 + ilen
        hasDot == p2 <= Len(s) /\ s[p2] = "."
        flen == IF hasDot THEN DigitRun(s, p2 + 1) ELSE 0
        scale == Pow(10, flen)
        significant == IF ilen > 309 THEN ilen - ZeroRun(s, p1) ELSE ilen
    IN  IF ilen = 0 /\ flen = 0 THEN NaN
        ELSE IF significant > 309 THEN Inf(sign)
        ELSE Norm(sign * (DigitsVal(s, p1, ilen) * scale + DigitsVal(s, p2 + 1, flen)),
                  scale)

toNumber(value) ==
    IF value = Null THEN Num(0, 1) ELSE parseFloat(StripCommas(value.s))

(***************************************************************************)
(* [...xs].sort((a, b) => a.year - b.year): Array.prototype.sort is        *)
(* stable, so records of equal year keep their input order.                *)
(***************************************************************************)
\* A sort that is not stable: x goes in front of the records of its own year.
RECURSIVE InsertByYearBeforeEqual(_, _)
InsertByYearBeforeEqual(sorted, x) ==
    IF sorted = <<>> THEN <<x>>
    ELSE IF sorted[Len(sorted)].year < x.year THEN Append(sorted, x)
    ELSE Append(InsertByYearBeforeEqual(SubSeq(sorted, 1, Len(sorted) - 1), x),
                sorted[Len(sorted)])

RECURSIVE InsertByYear(_, _)
InsertByYear(sorted, x) ==
    IF sorted = <<>> THEN <<x>>
    ELSE IF sorted[Len(sorted)].year <= x.year THEN Append(sorted, x)
    ELSE Append(InsertByYear(SubSeq(sorted, 1, Len(sorted) - 1), x), sorted[Len(sorted)])

RECURSIVE SortByYearFrom(_, _)
SortByYearFrom(acc, rest) ==
    IF rest = <<>> THEN acc
    ELSE SortByYearFrom(InsertByYear(acc, Head(rest)), Tail(rest))

NoSort(xs) == xs

SortByYear(xs) == SortByYearFrom(<<>>, xs)

(***************************************************************************)
(* calculateYoY                                                            *)
(***************************************************************************)
\* The metric of sorted[index] (1-based; the code's index 0 is index 1 here).
YoYEntryNoFirstCase(sorted, index) ==
    LET current == sorted[index]
        revenue == toNumber(current.revenue)
        previousRevenue == IF index = 1 THEN Num(0, 1) ELSE toNumber(sorted[index - 1].revenue)
        change == JsSub(revenue, previousRevenue)
    IN  [id |-> current.id, club_id |-> current.clubId, year |-> current.year,
         revenue |-> revenue, ebitda |-> toNumber(current.ebitda),
         wages |-> toNumber(current.wages),
         yoy_change |-> change,
         yoy_percentage |-> IF JsNeqZero(previousRevenue)
                            THEN JsMul(JsDiv(change, previousRevenue), Num(100, 1))
                            ELSE Null]

YoYEntryPrevByYear(sorted, index) ==
    LET current == sorted[index]
        revenue == toNumber(current.revenue)
        ebitda == toNumber(current.ebitda)
        wages == toNumber(current.wages)
        hasPrev == index > 1 /\ sorted[index - 1].year = current.year - 1
    IN  IF ~hasPrev
        THEN [id |-> current.id, club_id |-> current.clubId, year |-> current.year,
              revenue |-> revenue, ebitda |-> ebitda, wages |-> wages,
              yoy_change |-> Null, yoy_percentage |-> Null]
        ELSE LET previousRevenue == toNumber(sorted[index - 1].revenue)
                 change == JsSub(revenue, previousRevenue)
             IN  [id |-> current.id, club_id |-> current.clubId, year |-> current.year,
                  revenue |-> revenue, ebitda |-> ebitda, wages |-> wages,
                  yoy_change |-> change,
                  yoy_percentage |-> IF JsNeqZero(previousRevenue)
                                     THEN JsMul(JsDiv(change, previousRevenue), Num(100, 1))
                                     ELSE Null]

YoYEntryNoZeroGuard(sorted, index) ==
    LET current == sorted[index]
        revenue == toNumber(current.revenue)
        ebitda == toNumber(current.ebitda)
        wages == toNumber(current.wages)
    IN  IF index = 1
        THEN [id |-> current.id, club_id |-> current.clubId, year |-> current.year,
              revenue |-> revenue, ebitda |-> ebitda, wages |-> wages,
              yoy_change |-> Null, yoy_percentage |-> Null]
        ELSE LET previousRevenue == toNumber(sorted[index - 1].revenue)
                 change == JsSub(revenue, previousRevenue)
             IN  [id |-> current.id, club_id |-> current.clubId, year |-> current.year,
                  revenue |-> revenue, ebitda |-> ebitda, wages |-> wages,
                  yoy_change |-> change,
                  yoy_percentage |-> JsMul(JsDiv(change, previousRevenue), Num(100, 1))]

YoYEntry(sorted, index) ==
    LET current == sorted[index]
        revenue == toNumber(current.revenue)
        ebitda == toNumber(current.ebitda)
        wages == toNumber(current.wages)
    IN  IF index = 1
        THEN [id |-> current.id, club_id |-> current.clubId, year |-> current.year,
              revenue |-> revenue, ebitda |-> ebitda, wages |-> wages,
              yoy_change |-> Null, yoy_percentage |-> Null]
        ELSE LET previous == sorted[index - 1]
                 previousRevenue == toNumber(previous.revenue)
                 change == JsSub(revenue, previousRevenue)
                 percentage == IF JsNeqZero(previousRevenue)
                               THEN JsMul(JsDiv(change, previousRevenue), Num(100, 1))
                               ELSE Null
             IN  [id |-> current.id, club_id |-> current.clubId, year |-> current.year,
                  revenue |-> revenue, ebitda |-> ebitda, wages |-> wages,
                  yoy_change |-> change, yoy_percentage |-> percentage]

calculateYoY(fs) ==
    LET sorted == SortByYear(fs)
    IN  [index \in 1..Len(sorted) |-> YoYEntry(sorted, index)]

(***************************************************************************)
(* calculateCAGR / calculateCAGRFromMetrics                                *)
(***************************************************************************)
\* t^y <= limit, for t >= 0, y >= 0, limit >= 0, without computing t^y.
RECURSIVE PowLeq(_, _, _)
PowLeq(t, y, limit) ==
    IF y = 0 THEN 1 <= limit
    ELSE IF t = 0 THEN TRUE
    ELSE PowLeq(t, y - 1, limit \div t)

\* The largest t in lo..hi with t^y <= limit (lo is known to satisfy it).
RECURSIVE MaxRoot(_, _, _, _)
MaxRoot(lo, hi, y, limit) ==
    IF lo >= hi THEN lo
    ELSE LET mid == (lo + hi + 1) \div 2
         IN  IF PowLeq(mid, y, limit) THEN MaxRoot(mid, hi, y, limit)
             ELSE MaxRoot(lo, mid - 1, y, limit)

\* floor(100 * (n/d)^(1/y)) for n >= 0, d > 0, y >= 1.
FloorRootPercent(n, d, y) ==
    LET limit == (n * Pow(100, y)) \div d
        hi == IF n <= d THEN 100 ELSE (100 * n) \div d
    IN  MaxRoot(0, hi, y, limit)

\* (Math.pow(ratio, 1 / years) - 1) * 100, to whole-percent precision.
\* 1 / 0 is Infinity; a negative base with a fractional exponent gives NaN.
RootGrowth(ratio, years) ==
    IF ratio.k = "nan" THEN NaN
    ELSE IF years = 0
         THEN (IF ratio.k = "inf" THEN Inf(1)
               ELSE IF Abs(ratio.n) > ratio.d THEN Inf(1)
               ELSE IF Abs(ratio.n) < ratio.d THEN Num(-100, 1)
               ELSE NaN)
    ELSE IF ratio.k = "inf"
         THEN (IF ratio.sign < 0 /\ Abs(years) # 1 THEN NaN
               ELSE IF years > 0 THEN ratio ELSE Num(-100, 1))
    ELSE IF ratio.n < 0
         THEN (IF years = 1 THEN JsMul(JsSub(ratio, Num(1, 1)), Num(100, 1))
               ELSE IF years = -1
                    THEN JsMul(JsSub(JsDiv(Num(1, 1), ratio), Num(1, 1)), Num(100, 1))
               ELSE NaN)
    ELSE IF years > 0 THEN Num(FloorRootPercent(ratio.n, ratio.d, years) - 100, 1)
    ELSE IF ratio.n = 0 THEN Inf(1)
    ELSE Num(FloorRootPercent(ratio.d, ratio.n, -years) - 100, 1)

GrowthRate(lastRevenue, firstRevenue, years) ==
    RootGrowth(JsDiv(lastRevenue, firstRevenue), years)

calculateCAGRNoYearGuard(fs) ==
    IF Len(fs) < 2 THEN Null
    ELSE LET sorted == SortByYear(fs)
             firstRevenue == toNumber(sorted[1].revenue)
             lastRevenue == toNumber(sorted[Len(sorted)].revenue)
         IN  IF JsLeqZero(firstRevenue) \/ JsLeqZero(lastRevenue) THEN Null
             ELSE GrowthRate(lastRevenue, firstRevenue,
                             sorted[Len(sorted)].year - sorted[1].year)

\* The first and the last record as handed over, without sorting.
calculateCAGRUnsorted(fs) ==
    IF Len(fs) < 2 THEN Null
    ELSE LET firstRevenue == toNumber(fs[1].revenue)
             lastRevenue == toNumber(fs[Len(fs)].revenue)
             years == fs[Len(fs)].year - fs[1].year
         IN  IF JsLeqZero(firstRevenue) \/ JsLeqZero(lastRevenue) THEN Null
             ELSE IF years <= 0 THEN Null
             ELSE GrowthRate(lastRevenue, firstRevenue, years)

calculateCAGR(fs) ==
    IF Len(fs) < 2 THEN Null
    ELSE LET sorted == SortByYear(fs)
             firstRevenue == toNumber(sorted[1].revenue)
             lastRevenue == toNumber(sorted[Len(sorted)].revenue)
             years == sorted[Len(sorted)].year - sorted[1].year
         IN  IF JsLeqZero(firstRevenue) \/ JsLeqZero(lastRevenue) THEN Null
             ELSE IF years <= 0 THEN Null
             ELSE GrowthRate(lastRevenue, firstRevenue, years)

calculateCAGRFromMetricsCountSpan(ms) ==
    IF Len(ms) < 2 THEN Null
    ELSE LET sorted == SortByYear(ms)
             firstRevenue == sorted[1].revenue
             lastRevenue == sorted[Len(sorted)].revenue
             years == Len(sorted) - 1
         IN  IF JsLeqZero(firstRevenue) \/ JsLeqZero(lastRevenue) THEN Null
             ELSE IF years <= 0 THEN Null
             ELSE GrowthRate(lastRevenue, firstRevenue, years)

calculateCAGRFromMetrics(ms) ==
    IF Len(ms) < 2 THEN Null
    ELSE LET sorted == SortByYear(ms)
             firstRevenue == sorted[1].revenue
             lastRevenue == sorted[Len(sorted)].revenue
             years == sorted[Len(sorted)].year - sorted[1].year
         IN  IF JsLeqZero(firstRevenue) \/ JsLeqZero(lastRevenue) THEN Null
             ELSE IF years <= 0 THEN Null
             ELSE GrowthRate(lastRevenue, firstRevenue, years)

(***************************************************************************)
(* Deriver harness: a caller hands a collection of Financial rows of one   *)
(* club to the three functions.  Each row is a season (year) and a payload *)
(* (revenue, ebitda, wages), each null or text as the numeric columns are  *)
(* read from the store.                                                    *)
(***************************************************************************)
SeasonYears == {2020, 2021, 2023}

\* 1 followed by 309 zeros: a numeric column holds it, a double does not.
HugeNumeral == [i \in 1..310 |-> IF i = 1 THEN "1" ELSE "0"]

Payloads ==
    { [revenue |-> Null, ebitda |-> Text(<<"0">>), wages |-> Text(<<"7", ".", "5">>)],
      [revenue |-> Text(<<"-", "5", "0">>), ebitda |-> Null, wages |-> Null],
      [revenue |-> Text(<<"1", "0", "0">>), ebitda |-> Text(<<"1", "0">>),
       wages |-> Text(<<"5", "0">>)],
      [revenue |-> Text(<<"1", ",", "2", "0", "0">>), ebitda |-> Null,
       wages |-> Text(<<"7", ".", "5">>)],
      [revenue |-> Text(HugeNumeral), ebitda |-> Text(<<"3">>), wages |-> Null] }

\* The row at position i of the collection: its id is its position.
Row(i, year, payload) ==
    [id |-> i, clubId |-> 1, year |-> year, revenue |-> payload.revenue,
     ebitda |-> payload.ebitda, wages |-> payload.wages]

\* The collections of at most MaxLen rows, in any order, years repeated or not.
DeriverInit ==
    /\ \E len \in 0..MaxLen :
         \E years \in [1..len -> SeasonYears], payloads \in [1..len -> Payloads] :
            financials = [i \in 1..len |-> Row(i, years[i], payloads[i])]
    /\ metrics = <<>>
    /\ passed = <<>>
    /\ cagr = Null
    /\ called = "none"
    /\ store = [clubs |-> <<>>, financials |-> <<>>]
    /\ requests = <<>>
    /\ NoClient

Reverse(xs) == [i \in 1..Len(xs) |-> xs[Len(xs) + 1 - i]]

CallCalculateYoY ==
    /\ called = "none"
    /\ metrics' = calculateYoY(financials)
    /\ called' = "calculateYoY"
    /\ UNCHANGED <<financials, passed, cagr>>

CallCalculateCAGR ==
    /\ called = "none"
    /\ cagr' = calculateCAGR(financials)
    /\ called' = "calculateCAGR"
    /\ UNCHANGED <<financials, metrics, passed>>

\* xs started at its element k + 1 and wrapped around.
Rotate(xs, k) == [i \in 1..Len(xs) |-> xs[((i + k - 1) % Len(xs)) + 1]]

\* xs rotated, and rotated and reversed: every order of up to three elements.
Arrangements(xs) ==
    {Rotate(xs, k) : k \in 0..(Len(xs) - 1)}
        \cup {Reverse(Rotate(xs, k)) : k \in 0..(Len(xs) - 1)}
        \cup {xs}

\* The metrics are handed on as calculateYoY returned them, or rearranged.
CallCalculateCAGRFromMetrics ==
    /\ called = "calculateYoY"
    /\ \E arg \in Arrangements(metrics) :
         /\ passed' = arg
         /\ cagr' = calculateCAGRFromMetrics(arg)
    /\ called' = "calculateCAGRFromMetrics"
    /\ UNCHANGED <<financials, metrics>>

DeriverNext ==
    /\ \/ CallCalculateYoY
       \/ CallCalculateCAGR
       \/ CallCalculateCAGRFromMetrics
    /\ UNCHANGED avars
    /\ UNCHANGED cvars

DeriverSpec == DeriverInit /\ [][DeriverNext]_vars

(***************************************************************************)
(* Text helpers of the ask route.                                          *)
(***************************************************************************)
UpperLetters == <<"A", "B", "C", "D", "E", "F", "G", "H", "I", "J", "K", "L", "M", "N", "O", "P", "Q", "R", "S", "T", "U", "V", "W", "X", "Y", "Z">>
LowerLetters == <<"a", "b", "c", "d", "e", "f", "g", "h", "i", "j", "k", "l", "m", "n", "o", "p", "q", "r", "s", "t", "u", "v", "w", "x", "y", "z">>
UpperSet == {UpperLetters[i] : i \in 1..26}
LowerSet == {LowerLetters[i] : i \in 1..26}
LowerOf == [c \in UpperSet |-> LowerLetters[CHOOSE i \in 1..26 : UpperLetters[i] = c]]

\* One character under the regular expressions' i flag and under ILIKE.
LowerChar(c) == IF c \in UpperSet THEN LowerOf[c] ELSE c

\* \w of a regular expression: a letter, a digit or the underscore.
WordChars == DigitSet \cup {"_"} \cup UpperSet \cup LowerSet
IsWordChar(c) == c \in WordChars

IsBlank(c) == c \in {" ", "\t", "\n"}

\* const x = v; ... : the rest F of a block, evaluated with x bound to the
\* value of v.
Let(v, F(_)) == CHOOSE result \in {F(x) : x \in {v}} : TRUE

Min(S) == CHOOSE x \in S : \A y \in S : x <= y
Max(S) == CHOOSE x \in S : \A y \in S : x >= y

\* String.prototype.trim
Trim(s) ==
    LET keep == {i \in DOMAIN s : ~IsBlank(s[i])}
    IN  IF keep = {} THEN <<>> ELSE SubSeq(s, Min(keep), Max(keep))

\* The literal lit (given in lower case) stands in q at position i, letter case
\* ignored.
MatchesAt(q, lit, i) ==
    /\ i >= 1
    /\ i + Len(lit) - 1 <= Len(q)
    /\ \A k \in 1..Len(lit) : LowerChar(q[i + k - 1]) = lit[k]

(***************************************************************************)
(* Year extraction: question.match(/\b(20\d{2})\b/), then parseInt.        *)
(***************************************************************************)
\* \b at the gap before position i of q (i = Len(q) + 1: the end of q).
WordBoundary(q, i) ==
    LET before == i > 1 /\ IsWordChar(q[i - 1])
        after == i <= Len(q) /\ IsWordChar(q[i])
    IN  before # after

\* 20\d{2} stands at position i.
YearDigitsAt(q, i) ==
    /\ q[i] = "2"
    /\ i + 3 <= Len(q)
    /\ q[i + 1] = "0"
    /\ IsDigit(q[i + 2]) /\ IsDigit(q[i + 3])

YearMatchNoBoundary(q) ==
    LET at == {i \in DOMAIN q : YearDigitsAt(q, i)}
    IN  IF at = {} THEN 0 ELSE CHOOSE i \in at : \A j \in at : i <= j

\* The position of the leftmost match of /\b(20\d{2})\b/ in q, 0 when none.
YearMatch(q) ==
    LET at == {i \in DOMAIN q :
                  YearDigitsAt(q, i) /\ WordBoundary(q, i) /\ WordBoundary(q, i + 4)}
    IN  IF at = {} THEN 0 ELSE CHOOSE i \in at : \A j \in at : i <= j

\* const year = yearMatch ? parseInt(yearMatch[1]) : null
ExtractYear(q) ==
    LET i == YearMatch(q)
    IN  IF i = 0 THEN Null ELSE Num(DigitsVal(q, i, 4), 1)

(***************************************************************************)
(* Club-name extraction: the three patterns, each a literal, the group     *)
(* ([^']+) and a literal.  A match starts at the leftmost position that    *)
(* admits one, and the greedy group takes the longest run that the         *)
(* closing literal can follow.                                             *)
(***************************************************************************)
\* A match that starts at i can end its group before j, a position at which
\* the closing literal stands: the group is a non-empty run without apostrophe.
GroupEndsAt(q, open, i, j) ==
    /\ j >= i + Len(open) + 1
    /\ \A k \in (i + Len(open))..(j - 1) : q[k] # "'"

\* A match of the pattern can start at i, closes being the positions at which
\* the closing literal stands.
MatchStartsAt(q, open, closes, i) ==
    /\ MatchesAt(q, open, i)
    /\ \E j \in closes : GroupEndsAt(q, open, i, j)

\* match[1] of q.match(/<open>([^']+)<close>/i), or Null when q does not match.
PatternCapture(q, open, close) ==
    Let({j \in DOMAIN q : MatchesAt(q, close, j)}, LAMBDA closes :
        IF ~\E i \in DOMAIN q : MatchStartsAt(q, open, closes, i) THEN Null
        ELSE Let(CHOOSE i \in DOMAIN q :
                     /\ MatchStartsAt(q, open, closes, i)
                     /\ \A y \in 1..(i - 1) : ~MatchStartsAt(q, open, closes, y),
                 LAMBDA i :
             Let(Max({j \in closes : GroupEndsAt(q, open, i, j)}), LAMBDA j :
                 Text(SubSeq(q, i + Len(open), j - 1)))))

clubPatternsCatchAllFirst ==
    << [open |-> <<>>, close |-> <<" ", "r", "e", "v", "e", "n", "u", "e">>],
       [open |-> <<"w", "h", "a", "t", " ", "w", "a", "s", " ">>, close |-> <<"'", "s", " ", "r", "e", "v", "e", "n", "u", "e">>],
       [open |-> <<"t", "e", "l", "l", " ", "m", "e", " ", "a", "b", "o", "u", "t", " ">>, close |-> <<"'", "s", " ", "r", "e", "v", "e", "n", "u", "e">>] >>

\* clubPatterns, in the order of the array.
clubPatterns ==
    << [open |-> <<"w", "h", "a", "t", " ", "w", "a", "s", " ">>, close |-> <<"'", "s", " ", "r", "e", "v", "e", "n", "u", "e">>],
       [open |-> <<"t", "e", "l", "l", " ", "m", "e", " ", "a", "b", "o", "u", "t", " ">>, close |-> <<"'", "s", " ", "r", "e", "v", "e", "n", "u", "e">>],
       [open |-> <<>>, close |-> <<" ", "r", "e", "v", "e", "n", "u", "e">>] >>

\* The loop over clubPatterns from the n-th pattern on: the first pattern that
\* matches sets clubName to its trimmed group and ends the loop; clubName stays
\* null when none matches.
RECURSIVE ClubNameFrom(_, _)
ClubNameFrom(q, n) ==
    IF n > Len(clubPatterns) THEN Null
    ELSE Let(PatternCapture(q, clubPatterns[n].open, clubPatterns[n].close), LAMBDA match :
             IF match # Null THEN Text(Trim(match.s)) ELSE ClubNameFrom(q, n + 1))

ExtractClubName(q) == ClubNameFrom(q, 1)

(***************************************************************************)
(* The store (supabase/seed.sql): clubs and financials, in table order.    *)
(* The numeric columns are read as text.                                   *)
(***************************************************************************)
SeedClubs ==
    << [id |-> 1, name |-> <<"M", "a", "n", "c", "h", "e", "s", "t", "e", "r", " ", "U", "n", "i", "t", "e", "d">>],
       [id |-> 2, name |-> <<"R", "e", "a", "l", " ", "M", "a", "d", "r", "i", "d">>],
       [id |-> 3, name |-> <<"F", "C", " ", "B", "a", "r", "c", "e", "l", "o", "n", "a">>] >>

SeedRow(id, clubId, year, revenue, ebitda, wages) ==
    [id |-> id, clubId |-> clubId, year |-> year, revenue |-> Text(revenue),
     ebitda |-> Text(ebitda), wages |-> Text(wages)]

SeedFinancials ==
    << SeedRow(1, 1, 2021, <<"4", "9", "4", ".", "0">>, <<"1", "2", "0", ".", "5">>, <<"3", "2", "3", ".", "0">>),
       SeedRow(2, 1, 2022, <<"5", "8", "3", ".", "0">>, <<"1", "4", "5", ".", "2">>, <<"3", "8", "4", ".", "0">>),
       SeedRow(3, 1, 2023, <<"6", "4", "8", ".", "4">>, <<"1", "5", "8", ".", "0">>, <<"3", "3", "1", ".", "0">>),
       SeedRow(4, 2, 2021, <<"6", "4", "0", ".", "7">>, <<"1", "7", "0", ".", "0">>, <<"3", "7", "0", ".", "0">>),
       SeedRow(5, 2, 2022, <<"7", "1", "3", ".", "8">>, <<"1", "9", "2", ".", "0">>, <<"4", "1", "1", ".", "0">>),
       SeedRow(6, 2, 2023, <<"8", "3", "1", ".", "0">>, <<"2", "2", "5", ".", "0">>, <<"4", "5", "4", ".", "0">>),
       SeedRow(7, 3, 2021, <<"6", "3", "1", ".", "0">>, <<"5", "5", ".", "0">>, <<"5", "6", "0", ".", "0">>),
       SeedRow(8, 3, 2022, <<"5", "8", "2", ".", "0">>, <<"4", "8", ".", "0">>, <<"4", "7", "0", ".", "0">>),
       SeedRow(9, 3, 2023, <<"8", "0", "0", ".", "0">>, <<"1", "3", "5", ".", "0">>, <<"5", "2", "0", ".", "0">>) >>

\* Another content of the two tables: a club whose first revenue is missing and
\* whose revenue then stays level above a thousand, and a club whose revenue
\* falls.
LedgerClubs ==
    << [id |-> 1, name |-> <<"M", "a", "n", "c", "h", "e", "s", "t", "e", "r", " ", "U", "n", "i", "t", "e", "d">>],
       [id |-> 2, name |-> <<"F", "C", " ", "B", "a", "r", "c", "e", "l", "o", "n", "a">>] >>

LedgerFinancials ==
    << [id |-> 1, clubId |-> 1, year |-> 2020, revenue |-> Null, ebitda |-> Null, wages |-> Null],
       SeedRow(2, 1, 2021, <<"1", "2", "3", "4", ".", "5">>, <<"1", "0", ".", "0">>, <<"7", ".", "5">>),
       SeedRow(3, 1, 2022, <<"1", "2", "3", "4", ".", "5">>, <<"1", "0", ".", "0">>, <<"7", ".", "5">>),
       SeedRow(4, 2, 2022, <<"6", "3", "1", ".", "0">>, <<"4", "8", ".", "0">>, <<"4", "7", "0", ".", "0">>),
       SeedRow(5, 2, 2021, <<"8", "0", "0", ".", "0">>, <<"5", "5", ".", "0">>, <<"5", "6", "0", ".", "0">>) >>

Stores ==
    { [clubs |-> SeedClubs, financials |-> SeedFinancials],
      [clubs |-> LedgerClubs, financials |-> LedgerFinancials] }

Range(f) == {f[i] : i \in DOMAIN f}

(***************************************************************************)
(* lib/data/queries.ts.  ILIKE compares without regard to letter case, and *)
(* in its pattern % stands for any run of characters and _ for any one.    *)
(* A query with LIMIT 1 and no ORDER BY may return any row that matches.   *)
(***************************************************************************)
RECURSIVE LikeFrom(_, _, _, _)
LikeFrom(str, i, pat, j) ==
    IF j > Len(pat) THEN i > Len(str)
    ELSE IF pat[j] = "%"
         THEN LikeFrom(str, i, pat, j + 1) \/ (i <= Len(str) /\ LikeFrom(str, i + 1, pat, j))
    ELSE /\ i <= Len(str)
         /\ pat[j] = "_" \/ LowerChar(pat[j]) = LowerChar(str[i])
         /\ LikeFrom(str, i + 1, pat, j + 1)

ilike(str, pat) == LikeFrom(str, 1, pat, 1)

\* The values getClubByName(name) may resolve to.
getClubByName(st, name) ==
    LET results == {c \in Range(st.clubs) : ilike(c.name, name)}
    IN  IF results = {} THEN {Null} ELSE results

\* The values getClubFinancialByYear(clubId, year) may resolve to.
getClubFinancialByYear(st, clubId, year) ==
    LET results == {f \in Range(st.financials) : f.clubId = clubId /\ f.year = year}
    IN  IF results = {} THEN {Null} ELSE results

getAllClubFinancials(st, clubId) ==
    SortByYear(SelectSeq(st.financials, LAMBDA f : f.clubId = clubId))

getClubFinancialsWithYoYFromSecond(st, clubId) ==
    Let(calculateYoY(getAllClubFinancials(st, clubId)), LAMBDA series :
        IF series = <<>> THEN series ELSE Tail(series))

getClubFinancialsWithYoY(st, clubId) == calculateYoY(getAllClubFinancials(st, clubId))

(***************************************************************************)
(* lib/utils/formatters.ts: CURRENCIES and the functions that index it.    *)
(* CURRENCIES is an object literal: a key that is not its own resolves     *)
(* along the prototype chain (constructor, toString, ...) or to undefined. *)
(***************************************************************************)
Undefined == [k |-> "undefined"]
Str(v) == [k |-> "str", v |-> v]
Thrown == [k |-> "thrown"]

DEFAULT_CURRENCY == Str("GBP")

ObjectPrototypeKeys == {"constructor", "toString", "valueOf", "hasOwnProperty"}

\* CURRENCIES[code]
CURRENCIES(code) ==
    IF code = Str("GBP")
    THEN [k |-> "config", code |-> "GBP", symbol |-> Str("£"), rateFromGBP |-> Num(1, 1)]
    ELSE IF code = Str("EUR")
    THEN [k |-> "config", code |-> "EUR", symbol |-> Str("€"), rateFromGBP |-> Num(117, 100)]
    ELSE IF code.k = "str" /\ code.v \in ObjectPrototypeKeys
    THEN [k |-> "inherited", symbol |-> Undefined, rateFromGBP |-> Undefined]
    ELSE Undefined

\* A number multiplied by a value that may be undefined (undefined -> NaN).
JsMulAny(a, b) == IF b = Undefined THEN NaN ELSE JsMul(a, b)
JsDivAny(a, b) == IF b = Undefined THEN NaN ELSE JsDiv(a, b)

\* convertCurrency(amount, fromCurrency, toCurrency); Thrown when it throws.
convertCurrency(amount, fromCurrency, toCurrency) ==
    IF amount = Null THEN Null
    ELSE IF fromCurrency = toCurrency THEN amount
    ELSE IF CURRENCIES(fromCurrency) = Undefined \/ CURRENCIES(toCurrency) = Undefined
         THEN Thrown
    ELSE JsMulAny(JsDivAny(amount, CURRENCIES(fromCurrency).rateFromGBP),
                  CURRENCIES(toCurrency).rateFromGBP)

\* getCurrencySymbol(currency); Thrown when it throws.
getCurrencySymbol(currency) ==
    IF CURRENCIES(currency) = Undefined THEN Thrown ELSE CURRENCIES(currency).symbol

(***************************************************************************)
(* Number rendering.  Number.prototype.toFixed and toLocaleString (en-US   *)
(* defaults: grouping, at most three fraction digits) round the exact      *)
(* value half away from zero.                                              *)
(***************************************************************************)
RECURSIVE DecimalDigits(_)
DecimalDigits(n) ==
    IF n < 10 THEN <<Digits[n + 1]>>
    ELSE Append(DecimalDigits(n \div 10), Digits[(n % 10) + 1])

\* The non-negative fraction n/d times scale, rounded to the nearest integer.
RoundScaled(n, d, scale) ==
    (n \div d) * scale + (2 * (n % d) * scale + d) \div (2 * d)

\* The digits ds with a comma before every group of three.
RECURSIVE Grouped(_)
Grouped(ds) ==
    IF Len(ds) <= 3 THEN ds
    ELSE Grouped(SubSeq(ds, 1, Len(ds) - 3)) \o <<",">> \o SubSeq(ds, Len(ds) - 2, Len(ds))

\* The fraction digits of m thousandths, trailing zeros dropped.
FractionPart(m) ==
    IF m = 0 THEN <<>>
    ELSE IF m % 100 = 0 THEN <<".", Digits[(m \div 100) + 1]>>
    ELSE IF m % 10 = 0 THEN <<".", Digits[(m \div 100) + 1], Digits[((m \div 10) % 10) + 1]>>
    ELSE <<".", Digits[(m \div 100) + 1], Digits[((m \div 10) % 10) + 1], Digits[(m % 10) + 1]>>

\* value.toFixed(1)
toFixed(v) ==
    IF v = NaN THEN <<"N", "a", "N">>
    ELSE IF v.k = "inf" THEN (IF v.sign < 0 THEN <<"-">> ELSE <<>>) \o <<"I", "n", "f", "i", "n", "i", "t", "y">>
    ELSE Let(RoundScaled(Abs(v.n), v.d, 10), LAMBDA m :
             (IF v.n < 0 THEN <<"-">> ELSE <<>>) \o DecimalDigits(m \div 10)
                 \o <<".", Digits[(m % 10) + 1]>>)

\* value.toLocaleString(); "INFINITY SIGN" stands for the character U+221E.
toLocaleString(v) ==
    IF v = NaN THEN <<"N", "a", "N">>
    ELSE IF v.k = "inf" THEN (IF v.sign < 0 THEN <<"-">> ELSE <<>>) \o <<"INFINITY SIGN">>
    ELSE Let(RoundScaled(Abs(v.n), v.d, 1000), LAMBDA m :
             (IF v.n < 0 THEN <<"-">> ELSE <<>>) \o Grouped(DecimalDigits(m \div 1000))
                 \o FractionPart(m % 1000))

\* `${currencySymbol}${convertedRevenue?.toLocaleString() ?? 'N/A'}M`
revenueFormatted(currencySymbol, convertedRevenue) ==
    (IF currencySymbol = Undefined THEN <<"u", "n", "d", "e", "f", "i", "n", "e", "d">> ELSE <<currencySymbol.v>>)
        \o (IF convertedRevenue = Null THEN <<"N", "/", "A">> ELSE toLocaleString(convertedRevenue))
        \o <<"M">>

yoyTextNoPlus(yoy_percentage) ==
    IF yoy_percentage # Null THEN toFixed(yoy_percentage) \o <<"%">>
    ELSE <<"N", "/", "A", " ", "(", "n", "o", " ", "p", "r", "i", "o", "r", " ", "y", "e", "a", "r", " ", "d", "a", "t", "a", ")">>

yoyTextNoNullCase(yoy_percentage) ==
    Let(IF yoy_percentage = Null THEN Num(0, 1) ELSE yoy_percentage, LAMBDA p :
        (IF JsGtZero(p) THEN <<"+">> ELSE <<>>) \o toFixed(p) \o <<"%">>)

\* yoyText: the sign, the percentage to one decimal place and %, or the
\* notice that no prior year exists.
yoyText(yoy_percentage) ==
    IF yoy_percentage # Null
    THEN (IF JsGtZero(yoy_percentage) THEN <<"+">> ELSE <<>>)
             \o toFixed(yoy_percentage) \o <<"%">>
    ELSE <<"N", "/", "A", " ", "(", "n", "o", " ", "p", "r", "i", "o", "r", " ", "y", "e", "a", "r", " ", "d", "a", "t", "a", ")">>

(***************************************************************************)
(* app/api/ask/route.ts: POST.  The handler awaits request.json(), runs    *)
(* validation and the two extractions without suspending, then awaits the  *)
(* three store reads one after the other and formats the answer.  Every    *)
(* return and the catch block send the one response of the request.        *)
(***************************************************************************)
PipelineSteps ==
    << "validate", "extractYear", "extractClubName", "getClubByName",
       "getClubFinancialByYear", "getClubFinancialsWithYoY", "format" >>

NoAnswer == [k |-> "none"]

ErrorResponse(status, kind, error, name, year) ==
    [status |-> status, kind |-> kind, error |-> error, name |-> name, year |-> year,
     answer |-> NoAnswer]

InvalidQuestion == ErrorResponse(400, "InvalidQuestion", "Invalid question", <<>>, 0)
MissingYear ==
    ErrorResponse(400, "MissingYear",
        "Could not find a year in your question. Please include a year like 2022.", <<>>, 0)
MissingClubName ==
    ErrorResponse(400, "MissingClubName",
        "Could not identify the club name. Please mention the club clearly.", <<>>, 0)
ClubNotFoundAsBadRequest(clubName) ==
    ErrorResponse(400, "ClubNotFound",
        "Could not find club \"${clubName}\" in the database.", clubName, 0)

ClubNotFound(clubName) ==
    ErrorResponse(404, "ClubNotFound",
        "Could not find club \"${clubName}\" in the database.", clubName, 0)
YearDataNotFound(name, year) ==
    ErrorResponse(404, "YearDataNotFound",
        "No financial data found for ${club.name} in ${year}.", name, year)
YoYCalculationUnavailable ==
    ErrorResponse(500, "YoYCalculationUnavailable", "Could not calculate YoY change.", <<>>, 0)
ProcessingError ==
    ErrorResponse(500, "ProcessingError", "An error occurred processing your question.",
                  <<>>, 0)

\* The parts the answer sentence is rendered from.
AnswerResponse(club, year, currencySymbol, convertedRevenue, currency, yoy_percentage) ==
    [status |-> 200, kind |-> "Answer", error |-> "", name |-> club.name, year |-> year,
     answer |-> [k |-> "answer", club |-> club.name, year |-> year,
                 currencySymbol |-> currencySymbol, convertedRevenue |-> convertedRevenue,
                 currency |-> currency, yoy_percentage |-> yoy_percentage,
                 revenueFormatted |-> revenueFormatted(currencySymbol, convertedRevenue),
                 yoyText |-> yoyText(yoy_percentage)]]

\* !question || typeof question !== 'string'
IsInvalidQuestion(question) == question.k # "text" \/ question.s = <<>>

ParseQuestionClubNameFirst(question) ==
    IF IsInvalidQuestion(question)
    THEN [steps |-> <<"validate">>, failure |-> InvalidQuestion,
          year |-> Null, clubName |-> Null]
    ELSE Let(ExtractClubName(question.s), LAMBDA clubName :
         IF clubName = Null \/ clubName.s = <<>>
         THEN [steps |-> <<"validate", "extractClubName">>,
               failure |-> MissingClubName, year |-> Null, clubName |-> clubName]
         ELSE Let(ExtractYear(question.s), LAMBDA year :
              IF year = Null
              THEN [steps |-> <<"validate", "extractClubName", "extractYear">>,
                    failure |-> MissingYear, year |-> year, clubName |-> clubName]
              ELSE [steps |-> <<"validate", "extractClubName", "extractYear">>,
                    failure |-> NoAnswer, year |-> year, clubName |-> clubName]))

\* The handler from the parsed body to the call of getClubByName: the steps it
\* ran, the response it returned (NoAnswer when it went on), and its locals.
ParseQuestion(question) ==
    IF IsInvalidQuestion(question)
    THEN [steps |-> <<"validate">>, failure |-> InvalidQuestion,
          year |-> Null, clubName |-> Null]
    ELSE Let(ExtractYear(question.s), LAMBDA year :
         IF year = Null
         THEN [steps |-> <<"validate", "extractYear">>, failure |-> MissingYear,
               year |-> year, clubName |-> Null]
         ELSE Let(ExtractClubName(question.s), LAMBDA clubName :
              IF clubName = Null \/ clubName.s = <<>>
              THEN [steps |-> <<"validate", "extractYear", "extractClubName">>,
                    failure |-> MissingClubName, year |-> year, clubName |-> clubName]
              ELSE [steps |-> <<"validate", "extractYear", "extractClubName">>,
                    failure |-> NoAnswer, year |-> year, clubName |-> clubName]))

\* The handler from the series to its response: find the year, convert, format.
FormatAnswer(club, year, currency, withYoY) ==
    LET found == {i \in DOMAIN withYoY : withYoY[i].year = year}
    IN  IF found = {} THEN YoYCalculationUnavailable
        ELSE LET currentYearData == withYoY[Min(found)]
                 convertedRevenue == convertCurrency(currentYearData.revenue, Str("GBP"),
                                                     currency)
                 currencySymbol == getCurrencySymbol(currency)
             IN  IF convertedRevenue = Thrown \/ currencySymbol = Thrown
                 THEN ProcessingError
                 ELSE AnswerResponse(club, year, currencySymbol, convertedRevenue,
                                     currency, currentYearData.yoy_percentage)

IdleRequest ==
    [pc |-> "idle", malformed |-> FALSE, question |-> Null, currency |-> Undefined,
     year |-> Null, clubName |-> Null, club |-> Null,
     steps |-> <<>>, reads |-> <<>>, responses |-> <<>>]

\* return NextResponse.json(...): the handler of the request ends.
Respond(req, response) ==
    [req EXCEPT !.pc = "done", !.responses = Append(@, response)]

\* A request arrives: the handler starts and awaits request.json().
Receive(r, body) ==
    /\ requests[r].pc = "idle"
    /\ requests' = [requests EXCEPT ![r] =
           [IdleRequest EXCEPT !.pc = "json", !.malformed = body.malformed,
                               !.question = body.question, !.currency = body.currency]]
    /\ UNCHANGED store

\* request.json() settles: a body that is no JSON throws into the catch block;
\* otherwise currency takes its default when absent and the question is parsed.
HandleBody(r) ==
    LET req == requests[r]
        currency == IF req.currency = Undefined THEN DEFAULT_CURRENCY ELSE req.currency
    IN  /\ req.pc = "json"
        /\ \E parsed \in {IF req.malformed THEN Thrown ELSE ParseQuestion(req.question)} :
              requests' = [requests EXCEPT ![r] =
                  IF parsed = Thrown THEN Respond(req, ProcessingError)
                  ELSE LET next == [req EXCEPT !.currency = currency,
                                               !.steps = parsed.steps,
                                               !.year = parsed.year,
                                               !.clubName = parsed.clubName]
                       IN  IF parsed.failure # NoAnswer THEN Respond(next, parsed.failure)
                           ELSE [next EXCEPT !.pc = "getClubByName"]]
        /\ UNCHANGED store

\* await getClubByName(clubName) settles.
ClubLookupReturns(r) ==
    LET req == requests[r]
        read == [req EXCEPT !.steps = Append(@, "getClubByName"),
                            !.reads = Append(@, "getClubByName")]
    IN  /\ req.pc = "getClubByName"
        /\ \E club \in getClubByName(store, req.clubName.s) :
              requests' = [requests EXCEPT ![r] =
                  IF club = Null THEN Respond(read, ClubNotFound(req.clubName.s))
                  ELSE [read EXCEPT !.club = club, !.pc = "getClubFinancialByYear"]]
        /\ UNCHANGED store

\* await getClubFinancialByYear(club.id, year) settles.
YearDataReturns(r) ==
    LET req == requests[r]
        read == [req EXCEPT !.steps = Append(@, "getClubFinancialByYear"),
                            !.reads = Append(@, "getClubFinancialByYear")]
    IN  /\ req.pc = "getClubFinancialByYear"
        /\ \E financial \in getClubFinancialByYear(store, req.club.id, req.year.n) :
              requests' = [requests EXCEPT ![r] =
                  IF financial = Null
                  THEN Respond(read, YearDataNotFound(req.club.name, req.year.n))
                  ELSE [read EXCEPT !.pc = "getClubFinancialsWithYoY"]]
        /\ UNCHANGED store

\* await getClubFinancialsWithYoY(club.id) settles; the rest runs to the response.
SeriesReturns(r) ==
    LET req == requests[r]
    IN  /\ req.pc = "getClubFinancialsWithYoY"
        /\ \E withYoY \in {getClubFinancialsWithYoY(store, req.club.id)} :
           \E response \in {FormatAnswer(req.club, req.year.n, req.currency, withYoY)} :
              requests' = [requests EXCEPT ![r] =
                  Respond([req EXCEPT
                              !.steps = IF response = YoYCalculationUnavailable
                                        THEN Append(@, "getClubFinancialsWithYoY")
                                        ELSE @ \o <<"getClubFinancialsWithYoY", "format">>,
                              !.reads = Append(@, "getClubFinancialsWithYoY")],
                          response)]
        /\ UNCHANGED store

\* The response has gone out; the slot takes the next request.
Deliver(r) ==
    /\ requests[r].pc = "done"
    /\ requests' = [requests EXCEPT ![r] = IdleRequest]
    /\ UNCHANGED store

(***************************************************************************)
(* The requests of the model: a body that is no JSON, a question that is   *)
(* no string, or a question put together from an opener, a name, a         *)
(* possessive, a topic and a tail; and a currency field.                   *)
(***************************************************************************)
Openers == {<<>>, <<"W", "h", "a", "t", " ", "w", "a", "s">>, <<"W", "H", "A", "T", " ", "W", "A", "S">>, <<"T", "e", "l", "l", " ", "m", "e", " ", "a", "b", "o", "u", "t">>}
Names == {<<>>, <<" ">>, <<" ", "M", "a", "n", "c", "h", "e", "s", "t", "e", "r", " ", "U", "n", "i", "t", "e", "d">>, <<" ", "r", "e", "a", "l", " ", "m", "a", "d", "r", "i", "d">>, <<" ", "B", "a", "r", "c", "e", "l", "o", "n", "a">>, <<" ", "F", "C", " ", "B", "a", "r", "c", "e", "l", "o", "n", "a">>, <<" ", "F", "a", "k", "e", " ", "F", "C">>, <<" ", "t", "h", "e", " ", "a", "v", "e", "r", "a", "g", "e">>, <<" ", "%">>}
Possessives == {<<>>, <<"'", "s">>}
Topics == {<<>>, <<" ", "r", "e", "v", "e", "n", "u", "e">>}
Tails == {<<>>, <<" ", "i", "n", " ", "2", "0", "2", "2", "?">>, <<" ", "i", "n", " ", "2", "0", "2", "1">>, <<" ", "i", "n", " ", "1", "9", "0", "0", "?">>, <<" ", "i", "n", " ", "2", "0", "2", "0">>, <<" ", "i", "n", " ", "2", "0", "2", "1", " ", "a", "n", "d", " ", "2", "0", "2", "2">>, <<" ", "i", "n", " ", "2", "0", "2", "2", "3">>, <<" ", "i", "n", " ", "x", "2", "0", "2", "2">>}

Questions ==
    {Text(o \o n \o p \o t \o l) :
        o \in Openers, n \in Names, p \in Possessives, t \in Topics, l \in Tails}

CurrencyFields == {Undefined, Str("GBP"), Str("EUR"), Str("USD"), Str("constructor")}

AskSlots == {1}

AskInit ==
    /\ store \in Stores
    /\ requests = [r \in AskSlots |-> IdleRequest]
    /\ financials = <<>>
    /\ metrics = <<>>
    /\ passed = <<>>
    /\ cagr = Null
    /\ called = "none"
    /\ NoClient

ReceiveAny(r) ==
    \/ \E o \in Openers, n \in Names, p \in Possessives, t \in Topics, l \in Tails,
          c \in CurrencyFields :
          Receive(r, [malformed |-> FALSE, question |-> Text(o \o n \o p \o t \o l),
                      currency |-> c])
    \/ \E q \in {Null, Num(2022, 1)}, c \in CurrencyFields :
          Receive(r, [malformed |-> FALSE, question |-> q, currency |-> c])
    \/ Receive(r, [malformed |-> TRUE, question |-> Null, currency |-> Undefined])

AskNext ==
    \E r \in AskSlots :
        \/ ReceiveAny(r)
        \/ HandleBody(r)
        \/ ClubLookupReturns(r)
        \/ YearDataReturns(r)
        \/ SeriesReturns(r)
        \/ Deliver(r)

Next == AskNext /\ UNCHANGED dvars /\ UNCHANGED cvars

Spec == AskInit /\ [][Next]_vars

(***************************************************************************)
(* Requests in flight together: the handler keeps its locals per request,  *)
(* so two slots run the same actions over the one store, in any order.     *)
(***************************************************************************)
ConcurrentSlots == {1, 2}

ConcurrentQuestions ==
    { <<"W", "h", "a", "t", " ", "w", "a", "s", " ", "M", "a", "n", "c", "h", "e", "s", "t", "e", "r", " ", "U", "n", "i", "t", "e", "d", "'", "s", " ", "r", "e", "v", "e", "n", "u", "e", " ", "i", "n", " ", "2", "0", "2", "2", "?">>,
      <<"W", "h", "a", "t", " ", "w", "a", "s", " ", "%", "'", "s", " ", "r", "e", "v", "e", "n", "u", "e", " ", "i", "n", " ", "2", "0", "2", "2", "?">>,
      <<"T", "e", "l", "l", " ", "m", "e", " ", "a", "b", "o", "u", "t", " ", "F", "C", " ", "B", "a", "r", "c", "e", "l", "o", "n", "a", "'", "s", " ", "r", "e", "v", "e", "n", "u", "e", " ", "i", "n", " ", "2", "0", "2", "0">>,
      <<"W", "h", "a", "t", " ", "w", "a", "s", " ", "F", "a", "k", "e", " ", "F", "C", "'", "s", " ", "r", "e", "v", "e", "n", "u", "e", " ", "i", "n", " ", "2", "0", "2", "1">>,
      <<"W", "h", "a", "t", " ", "w", "a", "s", " ", "M", "a", "n", "c", "h", "e", "s", "t", "e", "r", " ", "U", "n", "i", "t", "e", "d", "'", "s", " ", "r", "e", "v", "e", "n", "u", "e">> }

ConcurrentBodies ==
    {[malformed |-> FALSE, question |-> Text(q), currency |-> c] :
        q \in ConcurrentQuestions, c \in {Undefined, Str("EUR")}}
    \cup {[malformed |-> FALSE, question |-> Null, currency |-> Undefined],
          [malformed |-> TRUE, question |-> Null, currency |-> Undefined]}

ConcurrentInit ==
    /\ store \in Stores
    /\ requests = [r \in ConcurrentSlots |-> IdleRequest]
    /\ financials = <<>>
    /\ metrics = <<>>
    /\ passed = <<>>
    /\ cagr = Null
    /\ called = "none"
    /\ NoClient

ConcurrentNext ==
    /\ \E r \in ConcurrentSlots :
           \/ \E body \in ConcurrentBodies : Receive(r, body)
           \/ HandleBody(r)
           \/ ClubLookupReturns(r)
           \/ YearDataReturns(r)
           \/ SeriesReturns(r)
           \/ Deliver(r)
    /\ UNCHANGED dvars
    /\ UNCHANGED cvars

ConcurrentSpec == ConcurrentInit /\ [][ConcurrentNext]_vars

(***************************************************************************)
(* Properties of the deriver (checked under DeriverSpec).                  *)
(***************************************************************************)
YoYReturned == called \in {"calculateYoY", "calculateCAGRFromMetrics"}

\* The input row a metric was derived from (the id is carried over).
SourceRow(m) == financials[CHOOSE i \in DOMAIN financials : financials[i].id = m.id]

\* a - b = c, by integer arithmetic on the fractions.
IsDifference(c, a, b) ==
    c.k = "num" /\ c.n * (a.d * b.d) = (a.n * b.d - b.n * a.d) * c.d

\* p = c / b * 100, by integer arithmetic on the fractions (b # 0).
IsPercentageOf(p, c, b) ==
    p.k = "num" /\ p.n * b.n * c.d = 100 * c.n * b.d * p.d

\* C1: for every collection of records (any order, any length including 0,
\* duplicate years allowed) calculateYoY returns as many elements as it was
\* given, in ascending (non-decreasing) order of year.
C1_LengthAndOrder ==
    YoYReturned =>
        /\ Len(metrics) = Len(financials)
        /\ \A i, j \in DOMAIN metrics : i < j => metrics[i].year <= metrics[j].year

\* An unordered three-row input with a repeated year went through calculateYoY.
C1_Witness ==
    /\ called = "calculateYoY"
    /\ Len(financials) = 3
    /\ financials[1].year > financials[2].year
    /\ financials[1].year = financials[3].year
    /\ Len(metrics) = 3

\* C2: for every non-empty input the first element (lowest year) of the output
\* has yoy_change = null and yoy_percentage = null and every later element has a
\* non-null yoy_change; a single record yields one metric with both null.
C2_FirstNullLaterNonNull ==
    (YoYReturned /\ Len(financials) > 0) =>
        /\ Len(metrics) > 0
        /\ \A i \in DOMAIN financials : metrics[1].year <= financials[i].year
        /\ metrics[1].yoy_change = Null
        /\ metrics[1].yoy_percentage = Null
        /\ \A i \in DOMAIN metrics : i > 1 => metrics[i].yoy_change # Null

\* A single-record input whose revenue is not zero went through calculateYoY.
C2_Witness ==
    /\ called = "calculateYoY"
    /\ Len(financials) = 1
    /\ Len(metrics) = 1
    /\ metrics[1].revenue = Num(100, 1)
    /\ metrics[1].yoy_change = Null

\* C3: for every output element but the first, yoy_change is that element's
\* revenue minus the revenue of the element right before it in the sorted
\* output, whatever the distance between the two years.
C3_ChangeAgainstPrevious ==
    YoYReturned =>
        \A i \in DOMAIN metrics :
            (i > 1 /\ IsFinite(metrics[i].revenue) /\ IsFinite(metrics[i - 1].revenue)) =>
                IsDifference(metrics[i].yoy_change, metrics[i].revenue,
                             metrics[i - 1].revenue)

\* A 2020 -> 2023 gap: the 2023 element is compared with the 2020 one.
C3_Witness ==
    /\ called = "calculateYoY"
    /\ Len(metrics) = 2
    /\ metrics[1].year = 2020 /\ metrics[2].year = 2023
    /\ metrics[1].revenue = Num(100, 1) /\ metrics[2].revenue = Num(1200, 1)
    /\ metrics[2].yoy_change = Num(1100, 1)

\* C4: for every output element but the first, yoy_percentage is null if and
\* only if the preceding element's revenue is exactly 0 (yoy_change is still
\* computed then); otherwise it is yoy_change / previous revenue * 100.
C4_PercentageNullIffZero ==
    YoYReturned =>
        \A i \in DOMAIN metrics :
            i > 1 =>
                /\ metrics[i].yoy_percentage = Null <=> metrics[i - 1].revenue = Num(0, 1)
                /\ metrics[i].yoy_change # Null
                /\ (IsFinite(metrics[i].revenue) /\ IsFinite(metrics[i - 1].revenue)
                    /\ metrics[i - 1].revenue # Num(0, 1)) =>
                        IsPercentageOf(metrics[i].yoy_percentage, metrics[i].yoy_change,
                                       metrics[i - 1].revenue)

\* Zero previous revenue: the change is computed, the percentage is null.
C4_Witness ==
    /\ called = "calculateYoY"
    /\ Len(metrics) = 3
    /\ metrics[2].revenue = Num(0, 1)
    /\ metrics[3].yoy_change = Num(100, 1)
    /\ metrics[3].yoy_percentage = Null
    /\ metrics[2].yoy_percentage = Num(-100, 1)

\* C5: in every derived metric a null revenue or null EBITDA of the source
\* record is emitted as 0, while a null wages value is emitted as null, not 0.
C5_NullPolicy ==
    YoYReturned =>
        \A i \in DOMAIN metrics :
            /\ SourceRow(metrics[i]).revenue = Null => metrics[i].revenue = Num(0, 1)
            /\ SourceRow(metrics[i]).ebitda = Null => metrics[i].ebitda = Num(0, 1)
            /\ SourceRow(metrics[i]).wages = Null => metrics[i].wages = Null

(***************************************************************************)
(* The elements the CAGR functions compare, stated on the input order: the *)
(* earliest-placed element of the lowest year and the latest-placed        *)
(* element of the highest year.                                            *)
(***************************************************************************)
LowestYear(xs) == CHOOSE y \in {xs[i].year : i \in DOMAIN xs} :
                      \A i \in DOMAIN xs : y <= xs[i].year
HighestYear(xs) == CHOOSE y \in {xs[i].year : i \in DOMAIN xs} :
                       \A i \in DOMAIN xs : y >= xs[i].year
FirstOfLowest(xs) ==
    LET low == LowestYear(xs)
    IN  xs[CHOOSE i \in DOMAIN xs :
               /\ xs[i].year = low
               /\ \A j \in DOMAIN xs : j < i => xs[j].year # low]
LastOfHighest(xs) ==
    LET high == HighestYear(xs)
    IN  xs[CHOOSE i \in DOMAIN xs :
               /\ xs[i].year = high
               /\ \A j \in DOMAIN xs : j > i => xs[j].year # high]

\* The cases in which CAGR is refused, for an input whose revenues are numbers.
CagrRefused(xs) ==
    \/ Len(xs) < 2
    \/ HighestYear(xs) - LowestYear(xs) <= 0
    \/ JsLeqZero(FirstOfLowest(xs).revenue)
    \/ JsLeqZero(LastOfHighest(xs).revenue)

\* The rows with their revenue read as a number.
WithNumericRevenue(fs) ==
    [i \in DOMAIN fs |-> [year |-> fs[i].year, revenue |-> toNumber(fs[i].revenue)]]

IsJsNumber(v) == v.k \in {"num", "nan", "inf"}

\* C6: calculateCAGR and calculateCAGRFromMetrics return null exactly when the
\* input has fewer than two elements, or the revenue of the lowest-year element
\* is <= 0, or that of the highest-year element is <= 0, or highest year minus
\* lowest year is <= 0; in every other case they return a non-null number.
C6_CagrNullExactly ==
    /\ called = "calculateCAGR" =>
          /\ cagr = Null <=> CagrRefused(WithNumericRevenue(financials))
          /\ cagr # Null => IsJsNumber(cagr)
    /\ called = "calculateCAGRFromMetrics" =>
          /\ cagr = Null <=> CagrRefused(passed)
          /\ cagr # Null => IsJsNumber(cagr)

\* Two positive revenues in one and the same year: refused for the year span.
C6_Witness ==
    /\ called = "calculateCAGR"
    /\ Len(financials) = 2
    /\ financials[1].year = financials[2].year
    /\ toNumber(financials[1].revenue) = Num(100, 1)
    /\ toNumber(financials[2].revenue) = Num(1200, 1)
    /\ cagr = Null

\* C7: for every record set R (any order, duplicates allowed)
\* calculateCAGRFromMetrics(calculateYoY(R)) is the value calculateCAGR(R)
\* returns (null or the same number).
C7_CagrParity ==
    (called = "calculateCAGRFromMetrics" /\ passed = metrics) =>
        cagr = calculateCAGR(financials)

\* An unordered input with a two-year gap gave a growth rate through the metrics.
C7_Witness ==
    /\ called = "calculateCAGRFromMetrics"
    /\ passed = metrics
    /\ Len(financials) = 3
    /\ financials[1].year = 2023 /\ financials[2].year = 2021 /\ financials[3].year = 2021
    /\ cagr = Num(246, 1)

\* Numeric text: an optional sign, digits grouped by commas or not, an optional
\* fraction, and at least one digit.
IsNumericText(s) ==
    LET body == IF Len(s) > 0 /\ s[1] \in {"-", "+"} THEN Tail(s) ELSE s
        dots == {i \in DOMAIN body : body[i] = "."}
    IN  /\ \A i \in DOMAIN body : body[i] \in DigitSet \cup {",", "."}
        /\ \E i \in DOMAIN body : body[i] \in DigitSet
        /\ Cardinality(dots) <= 1
        /\ \A i \in DOMAIN body : body[i] = "," => \A j \in dots : i < j

RevenuesNullOrNumeric(fs) ==
    \A i \in DOMAIN fs : fs[i].revenue = Null \/ IsNumericText(fs[i].revenue.s)

\* C8: for every record set whose revenue fields are null or numeric text,
\* calculateCAGR never returns NaN or Infinity: every invalid-domain input yields
\* null and every other input yields a finite number.
C8_CagrNullOrFinite ==
    (called = "calculateCAGR" /\ RevenuesNullOrNumeric(financials)) =>
        /\ cagr = Null \/ IsFinite(cagr)
        /\ CagrRefused(WithNumericRevenue(financials)) => cagr = Null
        /\ ~CagrRefused(WithNumericRevenue(financials)) => IsFinite(cagr)

(***************************************************************************)
(* Properties of the ask route (checked under Spec).                       *)
(***************************************************************************)
IsPrefix(xs, ys) == Len(xs) <= Len(ys) /\ \A i \in DOMAIN xs : xs[i] = ys[i]

Responded(r) == requests[r].pc = "done"
Response(r) == requests[r].responses[1]

StoreReads == {"getClubByName", "getClubFinancialByYear", "getClubFinancialsWithYoY"}

\* The step at which a response of the given kind ends the pipeline.
FailingStep(kind) ==
    CASE kind = "InvalidQuestion" -> 1
      [] kind = "MissingYear" -> 2
      [] kind = "MissingClubName" -> 3
      [] kind = "ClubNotFound" -> 4
      [] kind = "YearDataNotFound" -> 5
      [] kind = "YoYCalculationUnavailable" -> 6
      [] OTHER -> 7

\* The question lacks what the step looks for.
LacksYear(q) == \A i \in DOMAIN q : ~(YearDigitsAt(q, i) /\ WordBoundary(q, i)
                                                         /\ WordBoundary(q, i + 4))
LacksClubName(q) == ExtractClubName(q) \in {Null, Text(<<>>)}

\* C9: the steps a request has run are always an initial part of validation,
\* year extraction, club-name extraction, club lookup, year-data lookup,
\* derived-series lookup, formatting; a request has no response while it runs
\* and exactly one once it has ended; the response names the last step run,
\* which is the earliest one that fails (a question without year and without
\* club name gets MissingYear); and the store reads made are exactly the
\* read steps run, so none comes before both extractions have succeeded or
\* after the failing step.
C9_PipelineOrder ==
    \A r \in DOMAIN requests :
        LET req == requests[r]
            q == req.question
        IN  /\ IsPrefix(req.steps, PipelineSteps)
            /\ Len(req.responses) = IF Responded(r) THEN 1 ELSE 0
            /\ req.reads = SelectSeq(req.steps, LAMBDA step : step \in StoreReads)
            /\ req.reads # <<>> =>
                  /\ Len(req.steps) >= 4
                  /\ req.year # Null
                  /\ req.clubName \notin {Null, Text(<<>>)}
            /\ (Responded(r) /\ ~req.malformed) =>
                  /\ Len(req.steps) = FailingStep(Response(r).kind)
                  /\ (Response(r).kind = "InvalidQuestion") = IsInvalidQuestion(q)
                  /\ ~IsInvalidQuestion(q) =>
                        /\ (Response(r).kind = "MissingYear") = LacksYear(q.s)
                        /\ (Response(r).kind = "MissingClubName") =
                              (~LacksYear(q.s) /\ LacksClubName(q.s))
            /\ (Responded(r) /\ req.malformed) =>
                  /\ req.steps = <<>>
                  /\ Response(r) = ProcessingError

\* A question with neither a year nor a club name was answered MissingYear.
C9_Witness ==
    \E r \in DOMAIN requests :
        /\ Responded(r)
        /\ requests[r].question.k = "text"
        /\ LacksYear(requests[r].question.s)
        /\ LacksClubName(requests[r].question.s)
        /\ Response(r) = MissingYear
        /\ requests[r].steps = <<"validate", "extractYear">>
        /\ requests[r].reads = <<>>

\* The positions at which a token (a longest run of letters, digits and
\* underscores) of the form 20dd begins in q.
YearTokens(q) ==
    {i \in DOMAIN q :
        /\ q[i] = "2"
        /\ i = 1 \/ ~IsWordChar(q[i - 1])
        /\ RunLength(q, i, WordChars) = 4
        /\ q[i + 1] = "0" /\ q[i + 2] \in DigitSet /\ q[i + 3] \in DigitSet}

\* The number a four-digit token reads as.
TokenNumber(q, i) ==
    1000 * DigitVal(q[i]) + 100 * DigitVal(q[i + 1]) + 10 * DigitVal(q[i + 2])
        + DigitVal(q[i + 3])

\* C10: a request whose question passed validation is answered MissingYear
\* (status 400, the message about the missing year) exactly when the question
\* holds no word-bounded token 20dd; otherwise the year extracted is the number
\* of the first such token of the question, a year from 2000 to 2099.
C10_YearExtraction ==
    \A r \in DOMAIN requests :
        LET req == requests[r]
            tokens == YearTokens(req.question.s)
        IN  (Responded(r) /\ Len(req.steps) >= 2) =>
               /\ (Response(r) = MissingYear) = (tokens = {})
               /\ (Response(r).kind = "MissingYear") = (tokens = {})
               /\ tokens # {} =>
                     LET first == CHOOSE i \in tokens : \A j \in tokens : i <= j
                     IN  /\ req.year = Num(TokenNumber(req.question.s, first), 1)
                         /\ req.year.n \in 2000..2099

\* A question whose only digits are those of 20223 or x2022 got MissingYear.
C10_Witness ==
    \E r \in DOMAIN requests :
        /\ Responded(r)
        /\ Len(requests[r].steps) >= 2
        /\ \E i \in DOMAIN requests[r].question.s : YearDigitsAt(requests[r].question.s, i)
        /\ Response(r) = MissingYear

\* The patterns (a), (b), (c) of the club-name step, as the question states them.
PatternA == [open |-> <<"w", "h", "a", "t", " ", "w", "a", "s", " ">>, close |-> <<"'", "s", " ", "r", "e", "v", "e", "n", "u", "e">>]
PatternB == [open |-> <<"t", "e", "l", "l", " ", "m", "e", " ", "a", "b", "o", "u", "t", " ">>, close |-> <<"'", "s", " ", "r", "e", "v", "e", "n", "u", "e">>]
PatternC == [open |-> <<>>, close |-> <<" ", "r", "e", "v", "e", "n", "u", "e">>]

CaptureOf(q, pattern) == PatternCapture(q, pattern.open, pattern.close)

\* C11: once the club-name step has run, the name it produced is the trimmed
\* capture of (a) when (a) matches, else of (b) when (b) matches, else of (c)
\* when (c) matches, and null when none matches; so for a question matched by
\* both (a) and (c) the name handed to club lookup is (a)'s capture.
C11_FirstPatternWins ==
    \A r \in DOMAIN requests :
        LET req == requests[r]
        IN  Len(req.steps) >= 3 =>
               \E a \in {CaptureOf(req.question.s, PatternA)} :
               \E b \in {CaptureOf(req.question.s, PatternB)} :
               \E c \in {CaptureOf(req.question.s, PatternC)} :
                  /\ a # Null => req.clubName = Text(Trim(a.s))
                  /\ (a = Null /\ b # Null) => req.clubName = Text(Trim(b.s))
                  /\ (a = Null /\ b = Null /\ c # Null) => req.clubName = Text(Trim(c.s))
                  /\ (a = Null /\ b = Null /\ c = Null) => req.clubName = Null

\* A question matched by (a) and by (c), whose captures differ, reached club
\* lookup with (a)'s capture.
C11_Witness ==
    \E r \in DOMAIN requests :
        LET req == requests[r]
        IN  /\ Len(req.reads) >= 1
            /\ CaptureOf(req.question.s, PatternA) # Null
            /\ CaptureOf(req.question.s, PatternC) # Null
            /\ CaptureOf(req.question.s, PatternC) # CaptureOf(req.question.s, PatternA)
            /\ req.clubName = Text(Trim(CaptureOf(req.question.s, PatternA).s))

\* The stored clubs the name fragment matches, and the records of a club for
\* a year.
ClubsMatching(name) == {c \in Range(store.clubs) : ilike(c.name, name)}
RecordsOf(clubId, year) ==
    {f \in Range(store.financials) : f.clubId = clubId /\ f.year = year}

\* C12: a request that ended at validation or at one of the two extractions
\* got status 400.  With year and club name extracted: when no stored club
\* matches the name, the response is ClubNotFound with status 404 and carries
\* the trimmed name fragment; when a club was found and has no record for the
\* year, the response is YearDataNotFound with status 404 and carries the
\* stored name of the club and the year.
C12_LookupFailures ==
    \A r \in DOMAIN requests :
        LET req == requests[r]
        IN  (Responded(r) /\ ~req.malformed) =>
               /\ Len(req.steps) <= 3 => Response(r).status = 400
               /\ (Len(req.steps) >= 4 /\ ClubsMatching(req.clubName.s) = {}) =>
                     /\ Response(r).status = 404
                     /\ Response(r).kind = "ClubNotFound"
                     /\ Response(r).error =
                           "Could not find club \"${clubName}\" in the database."
                     /\ Response(r).name = req.clubName.s
                     /\ Response(r).name = Trim(ExtractClubName(req.question.s).s)
               /\ Response(r).kind = "ClubNotFound" => ClubsMatching(req.clubName.s) = {}
               /\ (Len(req.steps) >= 5 /\ RecordsOf(req.club.id, req.year.n) = {}) =>
                     /\ Response(r).status = 404
                     /\ Response(r).kind = "YearDataNotFound"
                     /\ Response(r).error =
                           "No financial data found for ${club.name} in ${year}."
                     /\ req.club \in Range(store.clubs)
                     /\ Response(r).name = req.club.name
                     /\ Response(r).year = req.year.n
               /\ Response(r).kind = "YearDataNotFound" =>
                     RecordsOf(req.club.id, req.year.n) = {}

\* A question about a club the store does not hold was answered ClubNotFound
\* with the name as typed.
C12_Witness ==
    \E r \in DOMAIN requests :
        /\ Responded(r)
        /\ requests[r].clubName = Text(<<"F", "a", "k", "e", " ", "F", "C">>)
        /\ Response(r).status = 404
        /\ Response(r).kind = "ClubNotFound"
        /\ Response(r).name = <<"F", "a", "k", "e", " ", "F", "C">>

\* C13: the store being the same throughout a request, no request is answered
\* YoYCalculationUnavailable: whenever getClubFinancialByYear has found a
\* record for the club and the year, the series getClubFinancialsWithYoY
\* returns for the club has an entry of that year.
C13_SeriesHoldsTheYear ==
    \A r \in DOMAIN requests :
        LET req == requests[r]
        IN  /\ Responded(r) => Response(r).kind # "YoYCalculationUnavailable"
            /\ (Len(req.steps) >= 5
                   /\ getClubFinancialByYear(store, req.club.id, req.year.n) # {Null}) =>
                  \E series \in {getClubFinancialsWithYoY(store, req.club.id)} :
                  \E i \in DOMAIN series : series[i].year = req.year.n

\* A request whose year-data lookup found a record went on to an answer.
C13_Witness ==
    \E r \in DOMAIN requests :
        /\ Responded(r)
        /\ requests[r].reads =
              <<"getClubByName", "getClubFinancialByYear", "getClubFinancialsWithYoY">>
        /\ RecordsOf(requests[r].club.id, requests[r].year.n) # {}
        /\ Response(r).status = 200

Lowered(s) == [k \in DOMAIN s |-> LowerChar(s[k])]

\* part occurs in whole, letter case ignored.
OccursIn(part, whole) == \E i \in DOMAIN whole : MatchesAt(whole, Lowered(part), i)

\* part occurs in whole as a run of whole words, letter case ignored.
OccursAsWords(part, whole) ==
    \E i \in DOMAIN whole :
        /\ part # <<>>
        /\ MatchesAt(whole, Lowered(part), i)
        /\ i = 1 \/ IsBlank(whole[i - 1])
        /\ i + Len(part) - 1 = Len(whole) \/ IsBlank(whole[i + Len(part)])

SupportedCurrencies == {Str("GBP"), Str("EUR")}

\* C14: a request whose name fragment is part (whole words) of the name of
\* exactly one stored club, in any letter case, for a year that club has a record of and
\* in a supported currency, is answered successfully with the stored name of
\* that club.
C14_PartialNameResolves ==
    \A r \in DOMAIN requests :
        LET req == requests[r]
        IN  (Responded(r) /\ Len(req.steps) >= 4 /\ req.currency \in SupportedCurrencies) =>
               \A c \in Range(store.clubs) :
                  (/\ OccursAsWords(req.clubName.s, c.name)
                   /\ \A other \in Range(store.clubs) :
                         OccursAsWords(req.clubName.s, other.name) => other = c
                   /\ RecordsOf(c.id, req.year.n) # {}) =>
                     /\ Response(r).status = 200
                     /\ Response(r).answer.club = c.name

\* The words of a name: its longest runs without blank.
WordsOf(s) ==
    {SubSeq(s, i, j) : <<i, j>> \in
        {w \in (DOMAIN s) \X (DOMAIN s) :
            /\ w[1] <= w[2]
            /\ \A k \in w[1]..w[2] : ~IsBlank(s[k])
            /\ w[1] = 1 \/ IsBlank(s[w[1] - 1])
            /\ w[2] = Len(s) \/ IsBlank(s[w[2] + 1])}}

\* The question holds no word of the name of any stored club.
MentionsNoClub(q) ==
    \A c \in Range(store.clubs) : \A word \in WordsOf(c.name) : ~OccursIn(word, q)

\* C15: a question with a year and the word revenue that mentions no club is
\* answered MissingClubName (status 400, 'Could not identify the club
\* name...'), and no club lookup is made for it.
C15_NoClubNoLookup ==
    \A r \in DOMAIN requests :
        LET req == requests[r]
        IN  (/\ Responded(r)
             /\ ~req.malformed
             /\ ~IsInvalidQuestion(req.question)
             /\ YearTokens(req.question.s) # {}
             /\ OccursIn(<<"r", "e", "v", "e", "n", "u", "e">>, req.question.s)
             /\ MentionsNoClub(req.question.s)) =>
               /\ Response(r).status = 400
               /\ Response(r).kind = "MissingClubName"
               /\ req.reads = <<>>

\* The positions at which a token of four digits begins in q.
FourDigitTokens(q) ==
    {i \in DOMAIN q :
        /\ q[i] \in DigitSet
        /\ i = 1 \/ ~IsWordChar(q[i - 1])
        /\ RunLength(q, i, WordChars) = 4
        /\ q[i + 1] \in DigitSet /\ q[i + 2] \in DigitSet /\ q[i + 3] \in DigitSet}

\* C16: a question that names a stored club and holds one four-digit year for
\* which that club has no record is answered YearDataNotFound (status 404) for
\* that club and that year.
C16_NoRecordForYear ==
    \A r \in DOMAIN requests :
        LET req == requests[r]
        IN  (Responded(r) /\ ~req.malformed /\ ~IsInvalidQuestion(req.question)) =>
               \A i \in FourDigitTokens(req.question.s) :
               \A name \in {ExtractClubName(req.question.s)} :
               \A c \in Range(store.clubs) :
                  (/\ Cardinality(FourDigitTokens(req.question.s)) = 1
                   /\ name \notin {Null, Text(<<>>)}
                   /\ ClubsMatching(name.s) = {c}
                   /\ RecordsOf(c.id, TokenNumber(req.question.s, i)) = {}) =>
                     /\ Response(r).status = 404
                     /\ Response(r).kind = "YearDataNotFound"
                     /\ Response(r).name = c.name
                     /\ Response(r).year = TokenNumber(req.question.s, i)

Answered(r) == Responded(r) /\ Response(r).status = 200

\* text is digits, a point and one digit, and reads as the number nearest to
\* the magnitude of n/d among those with one decimal place.
IsOneDecimalOf(text, n, d) ==
    /\ Len(text) >= 3
    /\ text[Len(text) - 1] = "."
    /\ \A k \in DOMAIN text : k # Len(text) - 1 => text[k] \in DigitSet
    /\ Let(10 * DigitsVal(text, 1, Len(text) - 2) + DigitVal(text[Len(text)]), LAMBDA m :
           Abs(20 * Abs(n) - 2 * m * d) <= d)

\* C17: in a successful answer whose percentage is a number p, the YoY part
\* is p rounded to one decimal place followed by %, with a leading + exactly
\* when p > 0, a leading - when p < 0 and no sign for zero; the answer for
\* Manchester United and 2022 over the seeded records (494.0, then 583.0) has
\* the YoY part +18.0%.
C17_YoYPart ==
    \A r \in DOMAIN requests :
        Answered(r) =>
            LET answer == Response(r).answer
                p == answer.yoy_percentage
                text == answer.yoyText
                signed == text # <<>> /\ text[1] \in {"+", "-"}
                number == SubSeq(text, IF signed THEN 2 ELSE 1, Len(text) - 1)
            IN  /\ p.k = "num" =>
                      /\ text[Len(text)] = "%"
                      /\ (text[1] = "+") = (p.n > 0)
                      /\ (text[1] = "-") = (p.n < 0)
                      /\ IsOneDecimalOf(number, p.n, p.d)
                /\ (/\ store.financials = SeedFinancials
                    /\ answer.club = <<"M", "a", "n", "c", "h", "e", "s", "t", "e", "r", " ", "U", "n", "i", "t", "e", "d">>
                    /\ answer.year = 2022) => text = <<"+", "1", "8", ".", "0", "%">>

\* The seeded Manchester United question for 2022 was answered with +18.0%.
C17_Witness ==
    \E r \in DOMAIN requests :
        /\ Answered(r)
        /\ store.financials = SeedFinancials
        /\ Response(r).answer.club = <<"M", "a", "n", "c", "h", "e", "s", "t", "e", "r", " ", "U", "n", "i", "t", "e", "d">>
        /\ Response(r).answer.year = 2022
        /\ Response(r).answer.yoyText = <<"+", "1", "8", ".", "0", "%">>

\* The position of the point in text, Len(text) + 1 when it has none.
PointOf(text) ==
    IF \E k \in DOMAIN text : text[k] = "."
    THEN CHOOSE k \in DOMAIN text : text[k] = "." /\ \A j \in 1..(k - 1) : text[j] # "."
    ELSE Len(text) + 1

\* text shows the magnitude of n/d rounded to hundredths: its integer digits
\* in groups of three, then at most two decimal places.
IsGroupedAmountOf(text, n, d) ==
    \E point \in {PointOf(text)} :
    \E whole \in {SelectSeq(SubSeq(text, 1, point - 1), LAMBDA c : c # ",")} :
    \E places \in {SubSeq(text, point + 1, Len(text))} :
        /\ whole # <<>> /\ \A k \in DOMAIN whole : whole[k] \in DigitSet
        /\ SubSeq(text, 1, point - 1) = Grouped(whole)
        /\ Len(places) <= 2 /\ \A k \in DOMAIN places : places[k] \in DigitSet
        /\ point <= Len(text) => places # <<>>
        /\ 100 * DigitsVal(whole, 1, Len(whole))
              + (IF Len(places) = 0 THEN 0
                 ELSE IF Len(places) = 1 THEN 10 * DigitVal(places[1])
                 ELSE 10 * DigitVal(places[1]) + DigitVal(places[2]))
           = RoundScaled(Abs(n), d, 100)

\* The revenue the store holds for the club of that name and the year.
StoredRevenue(name, year) ==
    toNumber((CHOOSE f \in Range(store.financials) :
                 /\ f.year = year
                 /\ \E c \in Range(store.clubs) : c.name = name /\ c.id = f.clubId).revenue)

\* C18: in a successful answer in GBP or EUR the rendered amount is the
\* currency symbol, then the stored revenue converted from GBP (times 1 for
\* GBP, times 1.17 for EUR), thousands-grouped and with at most 2 decimal
\* places, then M.
C18_AmountPart ==
    \A r \in DOMAIN requests :
        (Answered(r) /\ requests[r].currency \in SupportedCurrencies) =>
            LET answer == Response(r).answer
                text == answer.revenueFormatted
                rate == IF answer.currency = Str("EUR") THEN Num(117, 100) ELSE Num(1, 1)
            IN  \E amount \in {JsMul(StoredRevenue(answer.club, answer.year), rate)} :
                   /\ text[1] = (IF answer.currency = Str("EUR") THEN "€" ELSE "£")
                   /\ text[Len(text)] = "M"
                   /\ IsGroupedAmountOf(SubSeq(text, 2, Len(text) - 1), amount.n, amount.d)

\* year is the earliest year the store has a record of for the club.
IsEarliestYear(clubId, year) ==
    /\ RecordsOf(clubId, year) # {}
    /\ \A f \in Range(store.financials) : f.clubId = clubId => f.year >= year

\* C19: a successful answer for the earliest year on record of its club has
\* the YoY part 'N/A (no prior year data)', no percentage.
C19_FirstYearNotice ==
    \A r \in DOMAIN requests :
        (Answered(r) /\ IsEarliestYear(requests[r].club.id, Response(r).answer.year)) =>
            /\ Response(r).answer.yoyText = <<"N", "/", "A", " ", "(", "n", "o", " ", "p", "r", "i", "o", "r", " ", "y", "e", "a", "r", " ", "d", "a", "t", "a", ")">>
            /\ Response(r).answer.yoy_percentage = Null

\* The seeded FC Barcelona was asked about 2021, its first year, and the
\* answer carries the notice.
C19_Witness ==
    \E r \in DOMAIN requests :
        /\ Answered(r)
        /\ store.financials = SeedFinancials
        /\ Response(r).answer.club = <<"F", "C", " ", "B", "a", "r", "c", "e", "l", "o", "n", "a">>
        /\ Response(r).answer.year = 2021
        /\ Response(r).answer.yoyText = <<"N", "/", "A", " ", "(", "n", "o", " ", "p", "r", "i", "o", "r", " ", "y", "e", "a", "r", " ", "d", "a", "t", "a", ")">>

\* C20: two requests with the same question and the same currency, whether
\* they ran one after the other or interleaved, have the same response (the
\* same answer or the same failure).
C20_SameRequestSameResponse ==
    \A r1, r2 \in DOMAIN requests :
        (/\ Responded(r1) /\ Responded(r2)
         /\ requests[r1].malformed = requests[r2].malformed
         /\ requests[r1].question = requests[r2].question
         /\ requests[r1].currency = requests[r2].currency) =>
            Response(r1) = Response(r2)

(***************************************************************************)
(* IEEE 754 binary64 arithmetic, for convertCurrency taken on its own.     *)
(* A natural number of any size is a sequence of limbs in base 2^15, least *)
(* significant first, without a leading zero limb (zero is <<>>).  A       *)
(* binary64 value is zero or sign * m * 2^e with 2^52 <= m < 2^53;         *)
(* multiplication and division round to nearest, ties to even.  The        *)
(* amounts converted here stay far from overflow and underflow, so         *)
(* infinities and subnormal numbers do not arise.                          *)
(***************************************************************************)
RECURSIVE BigOf(_)
BigOf(n) == IF n = 0 THEN <<>> ELSE <<n % 32768>> \o BigOf(n \div 32768)

RECURSIVE BigCanon(_)
BigCanon(a) ==
    IF a = <<>> THEN <<>>
    ELSE IF a[Len(a)] = 0 THEN BigCanon(SubSeq(a, 1, Len(a) - 1))
    ELSE a

BigLess(a, b) ==
    IF Len(a) # Len(b) THEN Len(a) < Len(b)
    ELSE \E i \in 1..Len(a) : /\ a[i] < b[i]
                              /\ \A j \in (i + 1)..Len(a) : a[j] = b[j]

RECURSIVE BigAddCarry(_, _, _)
BigAddCarry(a, b, carry) ==
    IF a = <<>> /\ b = <<>> THEN (IF carry = 0 THEN <<>> ELSE <<carry>>)
    ELSE LET x == (IF a = <<>> THEN 0 ELSE Head(a)) + (IF b = <<>> THEN 0 ELSE Head(b)) + carry
         IN  <<x % 32768>> \o BigAddCarry(IF a = <<>> THEN <<>> ELSE Tail(a),
                                          IF b = <<>> THEN <<>> ELSE Tail(b), x \div 32768)

BigAdd(a, b) == BigAddCarry(a, b, 0)

\* a - b for a >= b, limb by limb with a borrow.
RECURSIVE BigSubBorrow(_, _, _)
BigSubBorrow(a, b, borrow) ==
    IF a = <<>> THEN <<>>
    ELSE LET x == Head(a) - (IF b = <<>> THEN 0 ELSE Head(b)) - borrow
         IN  <<x % 32768>> \o BigSubBorrow(Tail(a), IF b = <<>> THEN <<>> ELSE Tail(b),
                                           IF x < 0 THEN 1 ELSE 0)

BigSub(a, b) == BigCanon(BigSubBorrow(a, b, 0))

RECURSIVE BigMulLimb(_, _, _)
BigMulLimb(a, limb, carry) ==
    IF a = <<>> THEN (IF carry = 0 THEN <<>> ELSE <<carry>>)
    ELSE LET x == Head(a) * limb + carry
         IN  <<x % 32768>> \o BigMulLimb(Tail(a), limb, x \div 32768)

\* a * limb, without a leading zero limb.
BigTimes(a, limb) == BigCanon(BigMulLimb(a, limb, 0))

RECURSIVE BigMul(_, _)
BigMul(a, b) ==
    IF a = <<>> \/ b = <<>> THEN <<>>
    ELSE LET rest == BigMul(a, Tail(b))
         IN  BigAdd(BigTimes(a, Head(b)),
                    IF rest = <<>> THEN <<>> ELSE <<0>> \o rest)

\* a * 2^k: whole limbs of zeros, then the remaining bits.
BigShiftLeft(a, k) ==
    IF a = <<>> THEN <<>>
    ELSE [i \in 1..(k \div 15) |-> 0] \o BigMulLimb(a, Pow(2, k % 15), 0)

RECURSIVE SmallBits(_)
SmallBits(n) == IF n = 0 THEN 0 ELSE 1 + SmallBits(n \div 2)

BigBits(a) == IF a = <<>> THEN 0 ELSE 15 * (Len(a) - 1) + SmallBits(a[Len(a)])

BigIsOdd(a) == a # <<>> /\ a[1] % 2 = 1

Binary64Zero == [k |-> "binary64", s |-> 1, m |-> <<>>, e |-> 0]
Binary64(s, m, e) == [k |-> "binary64", s |-> s, m |-> m, e |-> e]

\* One step of the long division of a remainder by d in base 16: the next
\* quotient digit is appended to st.q, and st.r becomes what is left.
DivisionStep(st, d) ==
    Let([r |-> BigTimes(st.r, 16), q |-> BigTimes(st.q, 16)], LAMBDA next :
    Let(CHOOSE c \in 0..15 : /\ ~BigLess(next.r, BigTimes(d, c))
                             /\ BigLess(next.r, BigTimes(d, c + 1)), LAMBDA c :
        [r |-> BigSub(next.r, BigTimes(d, c)), q |-> BigAdd(next.q, BigOf(c))]))

\* `left` steps of the long division, taken as two runs of about half as many.
RECURSIVE LongDivision(_, _, _)
LongDivision(st, d, left) ==
    IF left = 0 THEN st
    ELSE IF left = 1 THEN DivisionStep(st, d)
    ELSE Let(LongDivision(st, d, left \div 2), LAMBDA mid :
             LongDivision(mid, d, left - (left \div 2)))

\* n and d (both > 0) scaled by powers of two so that d <= n < 2 * d, and the
\* exponent e with n / d = (scaled n / scaled d) * 2^e.
Align(n, d) ==
    Let(BigBits(n) - BigBits(d), LAMBDA gap :
    Let([n |-> IF gap >= 0 THEN n ELSE BigShiftLeft(n, 0 - gap),
         d |-> IF gap >= 0 THEN BigShiftLeft(d, gap) ELSE d], LAMBDA same :
        IF BigLess(same.n, same.d)
        THEN [n |-> BigAdd(same.n, same.n), d |-> same.d, e |-> gap - 1]
        ELSE [n |-> same.n, d |-> same.d, e |-> gap]))

\* The 53-bit quotient div.q with remainder div.r of a division by d, rounded
\* to nearest, ties to even, as sign * m * 2^e.
RoundNearestEven(s, div, d, e) ==
    Let(BigAdd(div.r, div.r), LAMBDA twice :
        IF BigLess(d, twice) \/ (twice = d /\ BigIsOdd(div.q))
        THEN Let(BigAdd(div.q, <<1>>), LAMBDA up :
                 IF BigBits(up) = 54 THEN Binary64(s, BigShiftLeft(<<1>>, 52), e + 1)
                 ELSE Binary64(s, up, e))
        ELSE Binary64(s, div.q, e))

\* The binary64 nearest to sign * (n / d) * 2^e (n, d > 0): the quotient of
\* the aligned numbers has its leading one and 52 more bits.
RoundRatio(s, n, d, e) ==
    Let(Align(n, d), LAMBDA al :
    Let(LongDivision([r |-> BigSub(al.n, al.d), q |-> <<1>>], al.d, 13), LAMBDA div :
        RoundNearestEven(s, div, al.d, e + al.e - 52)))

\* The value of a decimal literal n/d (d a power of ten) as JavaScript reads it.
Literal(n, d) == IF n = 0 THEN Binary64Zero ELSE RoundRatio(Sign(n), BigOf(Abs(n)), BigOf(d), 0)

\* a * b and a / b on binary64 values (b # 0).
Binary64Mul(a, b) ==
    Let(<<a, b>>, LAMBDA ab :
        IF ab[1].m = <<>> \/ ab[2].m = <<>> THEN Binary64Zero
        ELSE Let(BigMul(ab[1].m, ab[2].m), LAMBDA product :
                 RoundRatio(ab[1].s * ab[2].s, product, <<1>>, ab[1].e + ab[2].e)))

Binary64Div(a, b) ==
    Let(<<a, b>>, LAMBDA ab :
        IF ab[1].m = <<>> THEN Binary64Zero
        ELSE RoundRatio(ab[1].s * ab[2].s, ab[1].m, ab[2].m, ab[1].e - ab[2].e))

\* CURRENCIES[code].rateFromGBP as the binary64 value of its literal.
rateFromGBP(code) ==
    Let(CURRENCIES(code).rateFromGBP, LAMBDA rate : Literal(rate.n, rate.d))

\* convertCurrency(amount, fromCurrency, toCurrency) on binary64 amounts and
\* the two supported currency codes.
convertCurrencyBinary64(amount, fromCurrency, toCurrency) ==
    IF amount = Null THEN Null
    ELSE IF fromCurrency = toCurrency THEN amount
    ELSE Binary64Mul(Binary64Div(amount, rateFromGBP(fromCurrency)),
                     rateFromGBP(toCurrency))

(***************************************************************************)
(* The converter harness: an amount (null or a whole number of millions up *)
(* to MaxAmount) is converted from one supported currency to another, and  *)
(* what came back is converted the other way.                              *)
(***************************************************************************)
MaxAmount == 20

CurrencyCodes == {Str("GBP"), Str("EUR")}

\* Nothing of the server side is running.
NoServer ==
    /\ financials = <<>>
    /\ metrics = <<>>
    /\ passed = <<>>
    /\ cagr = Null
    /\ called = "none"
    /\ store = [clubs |-> <<>>, financials |-> <<>>]
    /\ requests = <<>>

ConvertInit ==
    /\ \E n \in (-1)..MaxAmount, fromCurrency \in CurrencyCodes, toCurrency \in CurrencyCodes :
          conversion = [pc |-> "start",
                        amount |-> IF n < 0 THEN Null ELSE Literal(n, 1),
                        fromCurrency |-> fromCurrency, toCurrency |-> toCurrency,
                        result |-> Undefined, back |-> Undefined]
    /\ table = NotMounted
    /\ dashboard = NotMounted
    /\ askBox = NotMounted
    /\ NoServer

Convert ==
    /\ conversion.pc = "start"
    /\ conversion' = [conversion EXCEPT
           !.pc = "converted",
           !.result = convertCurrencyBinary64(conversion.amount, conversion.fromCurrency,
                                              conversion.toCurrency)]

ConvertBack ==
    /\ conversion.pc = "converted"
    /\ conversion' = [conversion EXCEPT
           !.pc = "returned",
           !.back = convertCurrencyBinary64(conversion.result, conversion.toCurrency,
                                            conversion.fromCurrency)]

ConvertNext ==
    /\ \/ Convert
       \/ ConvertBack
    /\ UNCHANGED <<table, dashboard, askBox>>
    /\ UNCHANGED dvars
    /\ UNCHANGED avars

ConvertSpec == ConvertInit /\ [][ConvertNext]_vars

\* C21: convertCurrency returns null for a null amount, the amount itself when
\* the two currencies are equal, and otherwise amount / rate(from) * rate(to)
\* with the rates GBP 1.0 and EUR 1.17; an amount converted from GBP to EUR
\* and back to GBP is the original amount.
C21_ConvertCurrency ==
    /\ conversion.pc \in {"converted", "returned"} =>
          conversion.result =
              IF conversion.amount = Null THEN Null
              ELSE IF conversion.fromCurrency = conversion.toCurrency THEN conversion.amount
              ELSE Binary64Mul(Binary64Div(conversion.amount,
                                           IF conversion.fromCurrency = Str("GBP")
                                           THEN Literal(1, 1) ELSE Literal(117, 100)),
                               IF conversion.toCurrency = Str("GBP")
                               THEN Literal(1, 1) ELSE Literal(117, 100))
    /\ ( /\ conversion.pc = "returned"
         /\ conversion.fromCurrency = Str("GBP")
         /\ conversion.toCurrency = Str("EUR") ) =>
          conversion.back = conversion.amount

(***************************************************************************)
(* components/platform/metrics-table.tsx: MetricsTable.  The table is      *)
(* handed the metrics of one club (calculateYoY of its rows, so in         *)
(* ascending year order) and a currency, and keeps a sort field and a sort *)
(* direction.  Rows are indexed from 1 here (the code's index 0 is 1).     *)
(***************************************************************************)
SortFields == {"year", "revenue", "yoy_percentage"}

\* aValue / bValue of the comparator: the field the table is sorted by.
SortValue(row, sortField) ==
    IF sortField = "year" THEN Num(row.year, 1)
    ELSE IF sortField = "revenue" THEN row.revenue
    ELSE row.yoy_percentage

\* The comparator handed to Array.prototype.sort, as the sign sort acts on
\* (a NaN result counts as 0).
compare(a, b, sortField, sortDirection) ==
    Let(<<SortValue(a, sortField), SortValue(b, sortField)>>, LAMBDA values :
        IF values[1] = Null /\ values[2] = Null THEN 0
        ELSE IF values[1] = Null THEN 1
        ELSE IF values[2] = Null THEN -1
        ELSE Let(JsSub(values[1], values[2]), LAMBDA comparison :
                 IF comparison.k = "nan" \/ IsZero(comparison) THEN 0
                 ELSE IF sortDirection = "asc" THEN SignOf(comparison)
                 ELSE 0 - SignOf(comparison)))

\* Array.prototype.sort is stable: x goes behind everything it does not
\* precede.
RECURSIVE InsertBy(_, _, _, _)
InsertBy(sorted, x, sortField, sortDirection) ==
    IF sorted = <<>> THEN <<x>>
    ELSE IF compare(sorted[Len(sorted)], x, sortField, sortDirection) <= 0
    THEN Append(sorted, x)
    ELSE Append(InsertBy(SubSeq(sorted, 1, Len(sorted) - 1), x, sortField, sortDirection),
                sorted[Len(sorted)])

RECURSIVE SortFrom(_, _, _, _)
SortFrom(acc, rest, sortField, sortDirection) ==
    IF rest = <<>> THEN acc
    ELSE SortFrom(InsertBy(acc, Head(rest), sortField, sortDirection), Tail(rest),
                  sortField, sortDirection)

sortedData(data, sortField, sortDirection) == SortFrom(<<>>, data, sortField, sortDirection)

\* convertValue(value) ?? 0
convertValueOrZero(value, currency) ==
    Let(convertCurrency(value, Str("GBP"), currency), LAMBDA converted :
        IF converted = Null THEN Num(0, 1) ELSE converted)

\* getRevenueTrendUpToYear(yearIndex): sortedData.slice(0, yearIndex + 1),
\* each revenue converted.
getRevenueTrendUpToYear(sorted, currency, yearIndex) ==
    [j \in 1..yearIndex |-> convertValueOrZero(sorted[j].revenue, currency)]

\* The payloads whose revenue is a finite number: the comparator then orders
\* the rows consistently, and the outcome of the sort is defined.
TablePayloads == {p \in Payloads : p.revenue = Null \/ IsFinite(toNumber(p.revenue))}

\* The table mounted with the metrics of at most MaxLen seasons of distinct
\* years and a currency; its sort state starts at (year, desc).
TableInit ==
    /\ \E len \in 0..MaxLen :
         \E years \in [1..len -> SeasonYears], payloads \in [1..len -> TablePayloads] :
            /\ \A i, j \in 1..len : i # j => years[i] # years[j]
            /\ \E currency \in CurrencyCodes :
                 table = [pc |-> "mounted",
                          data |-> calculateYoY([i \in 1..len |->
                                                    Row(i, years[i], payloads[i])]),
                          currency |-> currency,
                          sortField |-> "year", sortDirection |-> "desc"]
    /\ conversion = NotMounted
    /\ dashboard = NotMounted
    /\ askBox = NotMounted
    /\ NoServer

\* handleSort(field); the header that calls it is rendered for data.length > 0.
handleSort(field) ==
    /\ table.pc = "mounted"
    /\ table.data # <<>>
    /\ table' = IF table.sortField = field
                THEN [table EXCEPT !.sortDirection =
                                       IF table.sortDirection = "asc" THEN "desc" ELSE "asc"]
                ELSE [table EXCEPT !.sortField = field, !.sortDirection = "desc"]

\* The parent renders the table with the other currency (toggleCurrency).
TableCurrencyChanges ==
    /\ table.pc = "mounted"
    /\ table' = [table EXCEPT !.currency = IF table.currency = Str("GBP")
                                           THEN Str("EUR") ELSE Str("GBP")]

TableNext ==
    /\ \/ \E field \in SortFields : handleSort(field)
       \/ TableCurrencyChanges
    /\ UNCHANGED <<conversion, dashboard, askBox>>
    /\ UNCHANGED dvars
    /\ UNCHANGED avars

TableSpec == TableInit /\ [][TableNext]_vars

\* The revenues, converted, of the seasons up to `year`, in season order.
TrendUpTo(year) ==
    Let(SelectSeq(table.data, LAMBDA row : row.year <= year), LAMBDA seasons :
        [j \in 1..Len(seasons) |-> convertValueOrZero(seasons[j].revenue, table.currency)])

\* C22: under every sort field and direction, the initial (year, desc)
\* included, the sparkline of each table row plots the revenues of that
\* row's season and of all earlier seasons, and of no other.
C22_SparklineUpToYear ==
    (table.pc = "mounted" /\ table.data # <<>>) =>
        \A sorted \in {sortedData(table.data, table.sortField, table.sortDirection)} :
            \A index \in 1..Len(sorted) :
                getRevenueTrendUpToYear(sorted, table.currency, index)
                    = TrendUpTo(sorted[index].year)

(***************************************************************************)
(* Further properties of the deriver (checked under DeriverSpec).          *)
(***************************************************************************)
\* The metric derived from the input row at position p (ids are positions).
MetricOf(p) == metrics[CHOOSE i \in DOMAIN metrics : metrics[i].id = financials[p].id]

\* Position q is the nearest one before p that holds a record of p's year.
PreviousOfSameYear(q, p) ==
    /\ q < p
    /\ financials[q].year = financials[p].year
    /\ \A k \in (q + 1)..(p - 1) : financials[k].year # financials[p].year

\* C23: calculateYoY sorts by year only and the sort is stable: records of
\* equal year come out in the order they went in, and the later of two such
\* records has its yoy_change computed against the earlier one.
C23_StableSort ==
    YoYReturned =>
        /\ \A i, j \in DOMAIN metrics :
              (i < j /\ metrics[i].year = metrics[j].year) => metrics[i].id < metrics[j].id
        /\ \A p, q \in DOMAIN financials :
              ( /\ PreviousOfSameYear(q, p)
                /\ IsFinite(MetricOf(p).revenue)
                /\ IsFinite(MetricOf(q).revenue) ) =>
                  IsDifference(MetricOf(p).yoy_change, MetricOf(p).revenue,
                               MetricOf(q).revenue)

\* Two records of one year, revenues 100 then -50, went through calculateYoY:
\* the second one's change is -150.
C23_Witness ==
    /\ called = "calculateYoY"
    /\ Len(financials) >= 2
    /\ financials[1].year = financials[2].year
    /\ financials[1].revenue = Text(<<"1", "0", "0">>)
    /\ financials[2].revenue = Text(<<"-", "5", "0">>)
    /\ MetricOf(2).yoy_change = Num(-150, 1)

DistinctYears(xs) == \A i, j \in DOMAIN xs : i # j => xs[i].year # xs[j].year

\* The records of xs (of distinct years) from the lowest year to the highest.
InYearOrder(xs) ==
    [i \in 1..Len(xs) |->
        CHOOSE r \in Range(xs) : Cardinality({o \in Range(xs) : o.year < r.year}) = i - 1]

\* C24: for records of pairwise distinct years, in whatever order they are
\* handed over, calculateYoY, calculateCAGR and calculateCAGRFromMetrics
\* return what they return for the same records in year order.
C24_OrderIndependent ==
    /\ (YoYReturned /\ DistinctYears(financials)) =>
          metrics = calculateYoY(InYearOrder(financials))
    /\ (called = "calculateCAGR" /\ DistinctYears(financials)) =>
          cagr = calculateCAGR(InYearOrder(financials))
    /\ (called = "calculateCAGRFromMetrics" /\ DistinctYears(passed)) =>
          cagr = calculateCAGRFromMetrics(InYearOrder(passed))

\* Seasons 2021, 2023, 2020 with revenues 1,200, 100 and 100 went through
\* calculateCAGR, which gave the growth rate from 2020 to 2023 (0).
C24_Witness ==
    /\ called = "calculateCAGR"
    /\ Len(financials) = 3
    /\ financials[1].year = 2021 /\ financials[2].year = 2023 /\ financials[3].year = 2020
    /\ financials[1].revenue = Text(<<"1", ",", "2", "0", "0">>)
    /\ financials[2].revenue = Text(<<"1", "0", "0">>)
    /\ financials[3].revenue = Text(<<"1", "0", "0">>)
    /\ cagr = Num(0, 1)

(***************************************************************************)
(* DashboardPage and DashboardClient.  The page reads the clubs in name    *)
(* order and the financials of the first one; the client keeps the         *)
(* selection, the financials shown, the comparison mode and the currency.  *)
(* A club change calls the server action getClubFinancialsAction and       *)
(* continues when its promise settles; calls settle in any order.          *)
(***************************************************************************)
\* The place of a character in the order the names are sorted by (names
\* are letters and blanks; case does not decide).
CollationRank(c) ==
    IF c = " " THEN 0 ELSE CHOOSE i \in 1..26 : LowerLetters[i] = LowerChar(c)

\* orderBy(asc(clubs.name)): name a sorts before name b.
NameBefore(a, b) ==
    \/ \E i \in 1..Min({Len(a), Len(b)}) :
          /\ \A j \in 1..(i - 1) : CollationRank(a[j]) = CollationRank(b[j])
          /\ CollationRank(a[i]) < CollationRank(b[i])
    \/ /\ Len(a) < Len(b)
       /\ \A j \in 1..Len(a) : CollationRank(a[j]) = CollationRank(b[j])

getAllClubs(st) ==
    [i \in 1..Len(st.clubs) |->
        CHOOSE c \in Range(st.clubs) :
            Cardinality({o \in Range(st.clubs) : NameBefore(o.name, c.name)}) = i - 1]

\* getClubFinancialsAction(clubId)
getClubFinancialsAction(st, clubId) == getClubFinancialsWithYoY(st, clubId)

\* Server-action calls that may be in flight at one time.
MaxPending == 2

\* selectedClubId2 = null: no club (ids are serial, from 1).
NoClub == 0

ClubIds == {store.clubs[i].id : i \in DOMAIN store.clubs}

\* DashboardPage renders DashboardClient with the clubs, the first club and
\* its financials.
DashboardInit ==
    /\ store \in Stores
    /\ \E clubs \in {getAllClubs(store)} :
         dashboard = [pc |-> "mounted",
                      selectedClubId |-> clubs[1].id,
                      financials |-> getClubFinancialsWithYoY(store, clubs[1].id),
                      loadingFinancials |-> FALSE,
                      currency |-> Str("GBP"),
                      comparisonMode |-> FALSE,
                      selectedClubId2 |-> NoClub,
                      financials2 |-> <<>>,
                      loadingFinancials2 |-> FALSE,
                      calls |-> <<>>,
                      rejected |-> FALSE]
    /\ financials = <<>>
    /\ metrics = <<>>
    /\ passed = <<>>
    /\ cagr = Null
    /\ called = "none"
    /\ requests = <<>>
    /\ conversion = NotMounted
    /\ table = NotMounted
    /\ askBox = NotMounted

\* handleClubChange(id), up to its await: the first selector lists every
\* club and reports a change of its value.
handleClubChange(id) ==
    /\ dashboard.pc = "mounted"
    /\ id # dashboard.selectedClubId
    /\ Len(dashboard.calls) < MaxPending
    /\ dashboard' = [dashboard EXCEPT
           !.selectedClubId = id,
           !.loadingFinancials = TRUE,
           !.calls = Append(@, [handler |-> 1, clubId |-> id])]

\* handleClubChange2(id), up to its await: the second selector is rendered in
\* comparison mode and lists the clubs other than the first selection.
handleClubChange2(id) ==
    /\ dashboard.pc = "mounted"
    /\ dashboard.comparisonMode
    /\ id # dashboard.selectedClubId
    /\ id # dashboard.selectedClubId2
    /\ Len(dashboard.calls) < MaxPending
    /\ dashboard' = [dashboard EXCEPT
           !.selectedClubId2 = id,
           !.loadingFinancials2 = TRUE,
           !.calls = Append(@, [handler |-> 2, clubId |-> id])]

\* The sequence without its element i.
Without(xs, i) == SubSeq(xs, 1, i - 1) \o SubSeq(xs, i + 1, Len(xs))

\* The call at position i settles and its handler runs on: try (data) or
\* catch (rejected), then finally.
CallSettles(i, data, rejected) ==
    /\ dashboard.pc = "mounted"
    /\ i \in DOMAIN dashboard.calls
    /\ dashboard' =
          IF dashboard.calls[i].handler = 1
          THEN [dashboard EXCEPT !.financials = data,
                                 !.loadingFinancials = FALSE,
                                 !.calls = Without(@, i),
                                 !.rejected = @ \/ rejected]
          ELSE [dashboard EXCEPT !.financials2 = data,
                                 !.loadingFinancials2 = FALSE,
                                 !.calls = Without(@, i),
                                 !.rejected = @ \/ rejected]

ActionReturns(i) ==
    /\ i \in DOMAIN dashboard.calls
    /\ \E data \in {getClubFinancialsAction(store, dashboard.calls[i].clubId)} :
         CallSettles(i, data, FALSE)

ActionRejects(i) == CallSettles(i, <<>>, TRUE)

toggleCurrency ==
    /\ dashboard.pc = "mounted"
    /\ dashboard' = [dashboard EXCEPT !.currency = IF @ = Str("GBP")
                                                   THEN Str("EUR") ELSE Str("GBP")]

toggleComparisonMode ==
    /\ dashboard.pc = "mounted"
    /\ dashboard' = IF dashboard.comparisonMode
                    THEN [dashboard EXCEPT !.comparisonMode = FALSE,
                                           !.selectedClubId2 = NoClub,
                                           !.financials2 = <<>>]
                    ELSE [dashboard EXCEPT !.comparisonMode = TRUE]

DashboardNext ==
    /\ \/ \E id \in ClubIds : handleClubChange(id)
       \/ \E id \in ClubIds : handleClubChange2(id)
       \/ \E i \in 1..MaxPending : ActionReturns(i)
       \/ \E i \in 1..MaxPending : ActionRejects(i)
       \/ toggleCurrency
       \/ toggleComparisonMode
    /\ UNCHANGED <<conversion, table, askBox>>
    /\ UNCHANGED dvars
    /\ UNCHANGED avars

DashboardSpec == DashboardInit /\ [][DashboardNext]_vars

\* C25: whatever clubs were selected one after the other, once every call of
\* getClubFinancialsAction has returned (in any order), the financials held
\* in state are those of the club that is selected.
C25_FinancialsOfSelectedClub ==
    ( /\ dashboard.pc = "mounted"
      /\ dashboard.calls = <<>>
      /\ ~dashboard.rejected ) =>
        dashboard.financials = getClubFinancialsWithYoY(store, dashboard.selectedClubId)

\* C28: in comparison mode the first and the second selected club are never
\* the same club.
C28_DistinctSelections ==
    (dashboard.pc = "mounted" /\ dashboard.comparisonMode) =>
        dashboard.selectedClubId # dashboard.selectedClubId2

(***************************************************************************)
(* Further properties of the ask route (checked under Spec).               *)
(***************************************************************************)
NoPriorYearNotice ==
    <<"N", "/", "A", " ", "(", "n", "o", " ", "p", "r", "i", "o", "r", " ", "y", "e", "a", "r", " ", "d", "a", "t", "a", ")">>

\* text is a percentage with one decimal place, with or without a sign.
IsPercentageText(text) ==
    /\ Len(text) >= 4
    /\ text[Len(text)] = "%"
    /\ text[Len(text) - 2] = "."
    /\ text[Len(text) - 1] \in DigitSet
    /\ text[1] \in DigitSet \cup {"+", "-"}

\* C26: a successful answer carries 'N/A (no prior year data)' only when the
\* year asked about is the earliest year the club has a record of; whenever
\* the club has a record of an earlier year, the answer carries a percentage.
C26_NoticeOnlyForEarliest ==
    \A r \in DOMAIN requests :
        Answered(r) =>
            /\ Response(r).answer.yoyText = NoPriorYearNotice =>
                  IsEarliestYear(requests[r].club.id, Response(r).answer.year)
            /\ (\E f \in Range(store.financials) :
                    /\ f.clubId = requests[r].club.id
                    /\ f.year < Response(r).answer.year) =>
                  IsPercentageText(Response(r).answer.yoyText)


\* Some pattern of clubPatterns matches the question.
SomePatternMatches(q) ==
    \E n \in DOMAIN clubPatterns :
        PatternCapture(q, clubPatterns[n].open, clubPatterns[n].close) # Null

\* C27: a request that gets as far as the club-name extraction is answered
\* MissingClubName only when none of the three patterns matches its question;
\* whenever some pattern matches, the request goes on to the club lookup, and
\* with a name fragment that is not empty.
C27_MissingOnlyWithoutMatch ==
    \A r \in DOMAIN requests :
        LET req == requests[r]
        IN  (Responded(r) /\ ~req.malformed /\ Len(req.steps) >= 3) =>
               /\ Response(r).kind = "MissingClubName" => ~SomePatternMatches(req.question.s)
               /\ SomePatternMatches(req.question.s) =>
                     /\ Len(req.steps) >= 4
                     /\ req.steps[4] = "getClubByName"
                     /\ req.clubName \notin {Null, Text(<<>>)}


\* The kinds of the responses by which the parse and lookup steps fail.
ParseAndLookupFailures ==
    { "InvalidQuestion", "MissingYear", "MissingClubName", "ClubNotFound",
      "YearDataNotFound", "YoYCalculationUnavailable" }

\* C29: a request whose currency field is given and is neither GBP nor EUR
\* never gets a 200 answer: while a parse or lookup step fails, the response
\* is the error of that step, and once year, club and year data have all
\* resolved the response is the generic 500 'An error occurred processing
\* your question.'
C29_UnsupportedCurrencyFails ==
    \A r \in DOMAIN requests :
        LET req == requests[r]
        IN  (/\ Responded(r)
             /\ ~req.malformed
             /\ req.currency \notin (SupportedCurrencies \cup {Undefined})) =>
               /\ Response(r).status # 200
               /\ Len(req.steps) < Len(PipelineSteps) =>
                     /\ Response(r).kind \in ParseAndLookupFailures
                     /\ FailingStep(Response(r).kind) = Len(req.steps)
               /\ Len(req.steps) = Len(PipelineSteps) => Response(r) = ProcessingError


(***************************************************************************)
(* components/platform/ask-box.tsx.  AskBox holds question, answer,        *)
(* loading and error; handleAsk posts the question to /api/ask and runs on *)
(* when the fetch settles.  State updates of one event or of one           *)
(* continuation are committed together (React 19), and the next event sees *)
(* the controls as the committed state renders them.  asks and sent count  *)
(* the calls of handleAsk and the requests sent.                           *)
(***************************************************************************)

\* Calls of handleAsk in one behaviour.
MaxAsks == 3

\* What the user types into the input.
TypedQuestions ==
    { <<>>,
      <<" ", " ">>,
      <<"r", "e", "v", "e", "n", "u", "e">>,
      <<" ", "R", "e", "a", "l", " ", "r", "e", "v", "e", "n", "u", "e", " ", "i", "n", " ", "2", "0", "2", "2", " ">> }

\* What a fetch of /api/ask comes to: a response that is ok with an answer, a
\* response that is not ok with or without an error text, or a rejection
\* (of fetch or of response.json()) with an Error.
FetchOutcomes ==
    { [ok |-> TRUE, rejected |-> FALSE, answer |-> Text(<<"R", "e", "a", "l", "'", "s", " ", "r", "e", "v", "e", "n", "u", "e">>), error |-> Undefined],
      [ok |-> FALSE, rejected |-> FALSE, answer |-> Undefined, error |-> Text(<<"C", "l", "u", "b", " ", "n", "o", "t", " ", "f", "o", "u", "n", "d">>)],
      [ok |-> FALSE, rejected |-> FALSE, answer |-> Undefined, error |-> Undefined],
      [ok |-> FALSE, rejected |-> TRUE, answer |-> Undefined, error |-> Text(<<"F", "a", "i", "l", "e", "d", " ", "t", "o", " ", "f", "e", "t", "c", "h">>)] }

AskBoxInit ==
    /\ NoServer
    /\ conversion = NotMounted
    /\ table = NotMounted
    /\ dashboard = NotMounted
    /\ askBox = [pc |-> "mounted",
                 question |-> <<>>,
                 answer |-> Null,
                 loading |-> FALSE,
                 error |-> Null,
                 pending |-> <<>>,
                 asks |-> 0,
                 sent |-> 0]

\* handleAsk without setError(null) and setAnswer(null).
handleAskKeepingResult(box) ==
    IF Trim(box.question) = <<>>
    THEN [box EXCEPT !.asks = @ + 1]
    ELSE [box EXCEPT !.asks = @ + 1,
                     !.loading = TRUE,
                     !.pending = Append(@, [question |-> box.question]),
                     !.sent = @ + 1]

\* handleAsk, up to its await: nothing for a question that trims to the empty
\* string, else loading, no error, no answer, and the request is sent.
handleAsk(box) ==
    IF Trim(box.question) = <<>>
    THEN [box EXCEPT !.asks = @ + 1]
    ELSE [box EXCEPT !.asks = @ + 1,
                     !.loading = TRUE,
                     !.error = Null,
                     !.answer = Null,
                     !.pending = Append(@, [question |-> box.question]),
                     !.sent = @ + 1]

\* onChange of the input, which is disabled while loading.
onChange(value) ==
    /\ askBox.pc = "mounted"
    /\ ~askBox.loading
    /\ value # askBox.question
    /\ askBox' = [askBox EXCEPT !.question = value]

\* onClick of the button, which is disabled while loading and while the
\* question trims to the empty string.
onClick ==
    /\ askBox.pc = "mounted"
    /\ ~(askBox.loading \/ Trim(askBox.question) = <<>>)
    /\ askBox.asks < MaxAsks
    /\ askBox' = handleAsk(askBox)

\* handleKeyPress, for a key pressed in the input (disabled while loading).
handleKeyPress(key) ==
    /\ askBox.pc = "mounted"
    /\ ~askBox.loading
    /\ askBox.asks < MaxAsks
    /\ askBox' = IF key = "Enter" THEN handleAsk(askBox) ELSE askBox

\* The rest of handleAsk once the fetch has settled: try, catch, finally.
FetchSettles(outcome) ==
    /\ askBox.pc = "mounted"
    /\ askBox.pending # <<>>
    /\ askBox' =
          IF outcome.rejected
          THEN [askBox EXCEPT !.error = outcome.error,
                              !.loading = FALSE,
                              !.pending = Tail(@)]
          ELSE IF ~outcome.ok
          THEN [askBox EXCEPT !.error = IF outcome.error \in {Undefined, Text(<<>>)}
                                        THEN Text(<<"F", "a", "i", "l", "e", "d", " ", "t", "o", " ", "g", "e", "t", " ", "a", "n", "s", "w", "e", "r">>)
                                        ELSE outcome.error,
                              !.loading = FALSE,
                              !.pending = Tail(@)]
          ELSE [askBox EXCEPT !.answer = outcome.answer,
                              !.loading = FALSE,
                              !.pending = Tail(@)]

AskBoxNext ==
    /\ \/ \E value \in TypedQuestions : onChange(value)
       \/ onClick
       \/ \E key \in {"Enter", "a"} : handleKeyPress(key)
       \/ \E outcome \in FetchOutcomes : FetchSettles(outcome)
    /\ UNCHANGED <<conversion, table, dashboard>>
    /\ UNCHANGED dvars
    /\ UNCHANGED avars

AskBoxSpec == AskBoxInit /\ [][AskBoxNext]_vars

\* handleAsk is called for a question that is empty or only blanks.
BlankSubmission ==
    /\ askBox'.asks # askBox.asks
    /\ Trim(askBox.question) = <<>>

\* C30: in AskBox answer and error are never both set, both are null while a
\* request is in flight (which is while loading is true), and a submission
\* with an empty or blank-only question changes nothing of the state and
\* sends no request.
C30_AskBoxStates ==
    /\ [](/\ ~(askBox.answer # Null /\ askBox.error # Null)
          /\ askBox.loading = (askBox.pending # <<>>)
          /\ askBox.loading => (askBox.answer = Null /\ askBox.error = Null))
    /\ [][BlankSubmission =>
             /\ askBox'.question = askBox.question
             /\ askBox'.answer = askBox.answer
             /\ askBox'.loading = askBox.loading
             /\ askBox'.error = askBox.error
             /\ askBox'.pending = askBox.pending
             /\ askBox'.sent = askBox.sent]_vars

\* After a blank submission and a request that was answered, a second request
\* is in flight.
C30_Witness ==
    /\ askBox.pc = "mounted"
    /\ askBox.loading
    /\ askBox.sent = 2
    /\ askBox.asks = 3

====
